---- MODULE Spec2Model ----
(***************************************************************************)
(* Model of the response normalisation layer of web3-mcp:                  *)
(*   utils.py     to_serializable, get_next_page_token,                    *)
(*                convert_iterable_to_list, extract_paginated_result       *)
(*   api/*.py     the NFT / Token / Query facades                          *)
(*                                                                         *)
(* Python values are tagged records whose first field k is the tag:        *)
(*   none, bool, int, float, str   immediate scalars                       *)
(*   enum      an Enum member (nm its name, v its value)                   *)
(*   opaque    an object of no recognised kind: no __dict__, no __iter__   *)
(*             (a Decimal, an object())                                    *)
(*   method    a bound method of a built-in (dict.items, list.count)       *)
(*   asyncgen  an async generator                                          *)
(*   emptylist the fresh [] of an "x or []"                                *)
(*   rawtuple  a tuple held as an Enum member's value                      *)
(*   ref       a reference to a heap object (v its identity, id(obj))      *)
(* Heap objects are dict, list, tuple, generator or object (with __dict__)  *)
(* nodes.                                                                  *)
(* A float carries its repr (v = "1.5").                                   *)
(* Serialised output uses the same scalar records, and list / map nodes.   *)
(***************************************************************************)
EXTENDS Integers, Sequences, FiniteSets, TLC

VARIABLES
    heap,     \* the object graph the call works on
    op,       \* the operation called
    arg,      \* its arguments
    ret,      \* what it returned (or raised)
    pc,       \* where a facade coroutine is: idle, submitted, finished, done
    fut,      \* the result of the job run by the executor
    thread,   \* the thread that made the upstream SDK call: none, loop, worker
    upstream, \* what the upstream SDK answered to that call
    calls,    \* the concurrent tool invocations, each with the fields above
    futures,  \* the futures run_in_executor returned, each with the objects
              \* its result refers to
    client,   \* AnkrAuth._client and the handles the API objects hold
    proc      \* the server process: its environment, its key, how far it got

callVars == <<heap, op, arg, ret, pc, fut, thread, upstream>>

concVars == <<calls, futures, client, proc>>

vars == <<heap, op, arg, ret, pc, fut, thread, upstream, calls, futures, client, proc>>

(***************************************************************************)
(* Bounds of the model.                                                    *)
(***************************************************************************)
\* longest chain of nested containers given to to_serializable
MaxChain == 12
NumCalls == 2
\* source lengths are 0..MaxSmallLen and MAX_PAGE_SIZE-1..MAX_PAGE_SIZE+MaxOver
MaxSmallLen == 4
MaxOver == 2
\* requested page sizes are absent, -1..MaxSmallPage and
\* MAX_PAGE_SIZE-1..MAX_PAGE_SIZE+MaxOver
MaxSmallPage == 3
\* a second, small value of default_max
SmallMax == 2
GraphSize == 2

(***************************************************************************)
(* Python values.                                                          *)
(***************************************************************************)
PyNone == [k |-> "none"]
PyBool(b) == [k |-> "bool", v |-> b]
PyInt(n) == [k |-> "int", v |-> n]
PyFloat(n) == [k |-> "float", v |-> n]
PyStr(s) == [k |-> "str", v |-> s]
EnumMember(nm, payload) == [k |-> "enum", nm |-> nm, v |-> payload]
Opaque(nm) == [k |-> "opaque", nm |-> nm]
RawTuple(elems) == [k |-> "rawtuple", v |-> elems]
PyBytes(s) == [k |-> "bytes", v |-> s]
\* an exception leaving a call
Raised(exc) == [k |-> "raise", nm |-> exc]
Ref(n) == [k |-> "ref", v |-> n]

OutList(elems) == [k |-> "list", v |-> elems]
OutMap(keys, vals) == [k |-> "map", keys |-> keys, v |-> vals]

\* faulty variant, for sensitivity: float left out of the isinstance test
PrimitiveKindsNoFloat == {"str", "int", "bool"}

\* isinstance(obj, (str, int, float, bool))
PrimitiveKinds == {"str", "int", "float", "bool"}

HeapNode(kind, keys, vals) == [kind |-> kind, keys |-> keys, vals |-> vals]

\* str(obj): the textual representation of a value; a str is its own text.
StrOf(h, obj) ==
    CASE obj.k = "none" -> PyStr("None")
      [] obj.k = "bool" -> PyStr(IF obj.v THEN "True" ELSE "False")
      [] obj.k = "int" -> PyStr(ToString(obj.v))
      [] obj.k = "float" -> PyStr(obj.v)
      [] obj.k = "str" -> obj
      [] obj.k = "enum" -> PyStr("Enum." \o obj.nm)
      [] obj.k = "opaque" -> PyStr("<" \o obj.nm \o ">")
      [] obj.k = "rawtuple" -> PyStr("(tuple)")
      [] obj.k = "asyncgen" -> PyStr("<async_generator>")
      [] obj.k = "method" -> PyStr("<method " \o obj.nm \o ">")
      [] obj.k = "ref" -> PyStr("<" \o h[obj.v].kind \o "#" \o ToString(obj.v) \o ">")

(***************************************************************************)
(* utils.py: to_serializable                                               *)
(***************************************************************************)
max_depth == 10

CIRCULAR == PyStr("<circular reference>")

\* faulty variant, for sensitivity: the depth test is off by one
DepthExceededLate(current_depth) == current_depth > max_depth + 1

\* if current_depth > max_depth: return str(obj)
DepthExceeded(current_depth) == current_depth > max_depth

\* faulty variant, for sensitivity: the visited test is dropped
IsVisitedNever(obj, visited) == FALSE

\* obj_id in visited (only heap objects are ever added to visited)
IsVisited(obj, visited) == obj.k = "ref" /\ obj.v \in visited

\* visited.add(obj_id)
VisitedAdd(visited, obj) == visited \cup {obj.v}

\* faulty variant, for sensitivity: the finally does not discard
VisitedDiscardNever(visited, obj) == visited

\* visited.discard(obj_id)
VisitedDiscard(visited, obj) == visited \ {obj.v}

\* obj.value if hasattr(obj, "value") else str(obj): the member's value, as it is
EnumValue(obj) == obj.v

\* k.startswith("_")
StartsWithUnderscore(key) == Len(key.v) >= 1 /\ SubSeq(key.v, 1, 1) = "_"

\* if not k.startswith("_") or k == "_value_"
KeepField(key) == ~StartsWithUnderscore(key) \/ key = PyStr("_value_")

\* the indices of the fields of obj.__dict__ that the filter keeps, in order
RECURSIVE KeptIndices(_, _)
KeptIndices(keys, i) ==
    IF i > Len(keys) THEN <<>>
    ELSE (IF KeepField(keys[i]) THEN <<i>> ELSE <<>>) \o KeptIndices(keys, i + 1)

\* if "_value_" in filtered_dict and len(filtered_dict) == 1
IsEnumLike(keys) == Len(keys) = 1 /\ keys[1] = PyStr("_value_")

\* faulty variant, for sensitivity: an object of no recognised kind is rejected
UnrecognizedRaises(h, obj) == Raised("TypeError")

\* the value returned for an object of no recognised kind: str(obj)
Unrecognized(h, obj) == StrOf(h, obj)

\* the branch of to_serializable that handles obj: the tests of lines 31, 36,
\* 39, 41, 43, 46, 53, 60, in that order, and the else of line 75
Branch(h, obj, visited, current_depth) ==
    IF DepthExceeded(current_depth) THEN "depth"
    ELSE IF IsVisited(obj, visited) THEN "circular"
    ELSE IF obj.k = "none" THEN "none"
    ELSE IF obj.k \in PrimitiveKinds THEN "primitive"
    ELSE IF obj.k = "enum" THEN "enum"
    ELSE IF obj.k # "ref" THEN "other"
    ELSE IF h[obj.v].kind = "dict" THEN "dict"
    ELSE IF h[obj.v].kind \in {"list", "tuple"} THEN "sequence"
    ELSE IF h[obj.v].kind = "object" THEN "object"
    ELSE "other"

\* what a container is iterated over: the items of a dict or a sequence, the
\* kept fields of obj.__dict__
Fields(node, branch) ==
    IF branch = "object"
    THEN LET idx == KeptIndices(node.keys, 1)
         IN [keys |-> [j \in 1..Len(idx) |-> node.keys[idx[j]]],
             vals |-> [j \in 1..Len(idx) |-> node.vals[idx[j]]]]
    ELSE [keys |-> node.keys, vals |-> node.vals]

\* the value a container branch returns, given its converted items
Assemble(branch, keys, outs) ==
    CASE branch = "dict" -> OutMap(keys, outs)
      [] branch = "sequence" -> OutList(outs)
      [] branch = "object" -> IF IsEnumLike(keys) THEN outs[1] ELSE OutMap(keys, outs)

\* what a branch without recursion returns
Immediate(branch, h, obj) ==
    CASE branch = "depth" -> StrOf(h, obj)
      [] branch = "circular" -> CIRCULAR
      [] branch = "none" -> PyNone
      [] branch = "primitive" -> obj
      [] branch = "enum" -> EnumValue(obj)
      [] branch = "other" -> Unrecognized(h, obj)

\* to_serializable returns [out |-> the value, vis |-> visited afterwards]:
\* visited is one mutable set shared by the whole recursion.
RECURSIVE to_serializable_rec(_, _, _, _)
RECURSIVE SerializeEach(_, _, _, _, _, _)

\* the comprehensions of lines 49, 56, 65: the items lo..hi in order, one
\* shared visited (a long range is halved to keep the evaluation shallow)
SerializeEach(h, vals, lo, hi, visited, depth) ==
    CASE lo > hi -> [vis |-> visited, outs |-> <<>>]
      [] lo = hi ->
            LET one == to_serializable_rec(h, vals[lo], visited, depth)
            IN [vis |-> one.vis, outs |-> <<one.out>>]
      [] lo + 1 = hi ->
            LET one == to_serializable_rec(h, vals[lo], visited, depth)
                two == to_serializable_rec(h, vals[hi], one.vis, depth)
            IN [vis |-> two.vis, outs |-> <<one.out, two.out>>]
      [] lo + 1 < hi ->
            LET mid == (lo + hi) \div 2
                left == SerializeEach(h, vals, lo, mid, visited, depth)
                right == SerializeEach(h, vals, mid + 1, hi, left.vis, depth)
            IN [outs |-> left.outs \o right.outs, vis |-> right.vis]

\* a container branch adds obj to visited, converts the items, and discards
\* obj from visited in its finally
to_serializable_rec(h, obj, visited, current_depth) ==
    LET branch == Branch(h, obj, visited, current_depth)
        fields == Fields(h[obj.v], branch)
        r == SerializeEach(h, fields.vals, 1, Len(fields.vals),
                           VisitedAdd(visited, obj), current_depth + 1)
    IN IF branch \in {"dict", "sequence", "object"}
       THEN [vis |-> VisitedDiscard(r.vis, obj), out |-> Assemble(branch, fields.keys, r.outs)]
       ELSE [vis |-> visited, out |-> Immediate(branch, h, obj)]

\* the call with the default arguments: visited = set(), current_depth = 0
to_serializable(h, obj) == to_serializable_rec(h, obj, {}, 0).out

(***************************************************************************)
(* Python built-ins the paginator relies on.                               *)
(***************************************************************************)
\* min(a, b)
Min(a, b) == IF a < b THEN a ELSE b

Method(nm) == [k |-> "method", nm |-> nm]
AsyncGen == [k |-> "asyncgen"]
EmptyList == [k |-> "emptylist"]

\* a generator yields vals from position pos on; asked for its failAt-th item
\* it raises (0: never); an endless one repeats vals for ever
Generator(vals, failAt, endless) ==
    [kind |-> "generator", keys |-> <<>>, vals |-> vals,
     pos |-> 0, failAt |-> failAt, endless |-> endless]

DictMethods == {"items", "keys", "values", "get", "pop", "update", "copy", "clear"}
ListMethods == {"append", "count", "index", "copy", "clear", "pop", "sort"}
TupleMethods == {"count", "index"}
StrMethods == {"count", "index", "format", "split", "strip"}
GeneratorMethods == {"send", "throw", "close"}

BuiltinMethods(h, x) ==
    IF x.k = "str" THEN StrMethods
    ELSE IF x.k # "ref" THEN {}
    ELSE CASE h[x.v].kind = "dict" -> DictMethods
           [] h[x.v].kind = "list" -> ListMethods
           [] h[x.v].kind = "tuple" -> TupleMethods
           [] h[x.v].kind = "generator" -> GeneratorMethods
           [] OTHER -> {}

IsKind(h, x, kinds) == x.k = "ref" /\ h[x.v].kind \in kinds

\* the index of key in keys, 0 when absent
RECURSIVE IndexOf(_, _, _)
IndexOf(keys, key, i) ==
    IF i > Len(keys) THEN 0
    ELSE IF keys[i] = key THEN i
    ELSE IndexOf(keys, key, i + 1)

\* hasattr(x, name)
HasAttr(h, x, name) ==
    \/ name \in BuiltinMethods(h, x)
    \/ IsKind(h, x, {"object"}) /\ IndexOf(h[x.v].keys, PyStr(name), 1) # 0

\* getattr(x, name, None)
GetAttr(h, x, name) ==
    IF IsKind(h, x, {"object"}) /\ IndexOf(h[x.v].keys, PyStr(name), 1) # 0
    THEN h[x.v].vals[IndexOf(h[x.v].keys, PyStr(name), 1)]
    ELSE IF name \in BuiltinMethods(h, x) THEN Method(name)
    ELSE PyNone

\* d.get(key) for a dict d
DictGet(h, x, key) ==
    LET i == IndexOf(h[x.v].keys, key, 1)
    IN IF i = 0 THEN PyNone ELSE h[x.v].vals[i]

\* bool(x)
Truthy(h, x) ==
    CASE x.k = "none" -> FALSE
      [] x.k = "bool" -> x.v
      [] x.k = "int" -> x.v # 0
      [] x.k = "float" -> x.v # "0.0"
      [] x.k = "str" -> x.v # ""
      [] x.k = "emptylist" -> FALSE
      [] x.k = "rawtuple" -> Len(x.v) > 0
      [] x.k = "ref" ->
            (CASE h[x.v].kind = "dict" -> Len(h[x.v].keys) > 0
               [] h[x.v].kind \in {"list", "tuple"} -> Len(h[x.v].vals) > 0
               [] OTHER -> TRUE)
      [] OTHER -> TRUE

\* hasattr(x, "__iter__")
HasIter(h, x) ==
    \/ x.k \in {"str", "bytes", "emptylist", "rawtuple"}
    \/ IsKind(h, x, {"dict", "list", "tuple", "generator"})
    \/ IsKind(h, x, {"object"}) /\ IndexOf(h[x.v].keys, PyStr("__iter__"), 1) # 0

(***************************************************************************)
(* utils.py: get_next_page_token                                           *)
(***************************************************************************)
NEXT_PAGE_TOKEN_ATTRS == <<"nextPageToken", "next_page_token">>

\* faulty variant, for sensitivity: only the first name is tried
FirstTokenOfFirstName(h, result, byAttr, i) ==
    LET token == IF byAttr THEN GetAttr(h, result, NEXT_PAGE_TOKEN_ATTRS[1])
                 ELSE DictGet(h, result, PyStr(NEXT_PAGE_TOKEN_ATTRS[1]))
    IN IF Truthy(h, token) THEN token ELSE PyNone

\* the first truthy value among look(name), name in NEXT_PAGE_TOKEN_ATTRS order
RECURSIVE FirstToken(_, _, _, _)
FirstToken(h, result, byAttr, i) ==
    IF i > Len(NEXT_PAGE_TOKEN_ATTRS) THEN PyNone
    ELSE LET token == IF byAttr THEN GetAttr(h, result, NEXT_PAGE_TOKEN_ATTRS[i])
                      ELSE DictGet(h, result, PyStr(NEXT_PAGE_TOKEN_ATTRS[i]))
         IN IF Truthy(h, token) THEN token ELSE FirstToken(h, result, byAttr, i + 1)

get_next_page_token(h, result) ==
    IF result.k = "none" THEN PyStr("")
    ELSE LET t1 == FirstToken(h, result, TRUE, 1)
         IN IF t1.k # "none" THEN StrOf(h, t1)
            ELSE IF IsKind(h, result, {"dict"})
                 THEN LET t2 == FirstToken(h, result, FALSE, 1)
                      IN IF t2.k # "none" THEN StrOf(h, t2) ELSE PyStr("")
                 ELSE PyStr("")

(***************************************************************************)
(* utils.py: convert_iterable_to_list                                      *)
(***************************************************************************)
MAX_PAGE_SIZE == 100

\* what iterating x yields, as far as it is stored
IterItems(h, x) ==
    CASE x.k = "emptylist" -> <<>>
      [] x.k = "rawtuple" -> x.v
      [] IsKind(h, x, {"dict"}) -> h[x.v].keys
      [] OTHER -> h[x.v].vals

\* faulty variant, for sensitivity: the iterator starts at the last item
NextItemLastFirst(h, x, j) ==
    LET its == IterItems(h, x)
    IN IF j <= Len(its) THEN [status |-> "item", item |-> its[Len(its) + 1 - j]]
       ELSE [status |-> "stop"]

\* the j-th next() on the iterator of x
NextItem(h, x, j) ==
    LET its == IterItems(h, x)
    IN IF IsKind(h, x, {"generator"})
       THEN LET g == h[x.v]
                idx == g.pos + j
            IN IF g.failAt = idx THEN [status |-> "raise"]
               ELSE IF g.endless /\ Len(its) > 0
                    THEN [status |-> "item", item |-> its[((idx - 1) % Len(its)) + 1]]
               ELSE IF idx <= Len(its) THEN [status |-> "item", item |-> its[idx]]
               ELSE [status |-> "stop"]
       ELSE IF j <= Len(its) THEN [status |-> "item", item |-> its[j]]
       ELSE [status |-> "stop"]

\* limit = max_items if max_items is not None else default_max
EffectiveLimit(max_items, default_max) ==
    IF max_items.k # "none" THEN max_items.v ELSE default_max

\* if i >= limit - 1: break
BreakNow(i, limit) == i >= limit - 1

\* faulty variant, for sensitivity: the items appended before the error are
\* returned
OnDrainErrorKeepsPartial(result) == result

\* except Exception: return []
OnDrainError(result) == <<>>

\* for i, item in enumerate(items): result.append(item); if ...: break
\* Iteration i (from 0) is the last one when the source has no item i + 1 to
\* give (it is exhausted, or raises) or when the break is taken after it.
LoopEndsAt(h, items, i, limit) ==
    NextItem(h, items, i + 1).status # "item" \/ BreakNow(i, limit)

\* an iteration by which the loop has ended for certain
LastIteration(h, items, limit) ==
    IF IsKind(h, items, {"generator"}) /\ h[items.v].endless
    THEN (IF limit > 1 THEN limit - 1 ELSE 0)
    ELSE Len(IterItems(h, items))

\* the first iteration in lo..hi at which the loop ends, -1 when there is none
\* (the range is halved rather than walked, to keep the evaluation shallow)
RECURSIVE FirstEnd(_, _, _, _, _)
FirstEnd(h, items, limit, lo, hi) ==
    IF lo = hi THEN (IF LoopEndsAt(h, items, lo, limit) THEN lo ELSE -1)
    ELSE LET mid == (lo + hi) \div 2
             left == FirstEnd(h, items, limit, lo, mid)
         IN IF left # -1 THEN left ELSE FirstEnd(h, items, limit, mid + 1, hi)

\* how many items were appended when the loop ended (taken), the next() calls
\* made on the source (pulls), and how it ended
DrainLoop(h, items, limit) ==
    LET i == FirstEnd(h, items, limit, 0, LastIteration(h, items, limit))
        status == NextItem(h, items, i + 1).status
    IN IF status = "item" THEN [taken |-> i + 1, pulls |-> i + 1, ended |-> "break"]
       ELSE [taken |-> i, pulls |-> i + 1, ended |-> status]

\* result after the loop: the items appended, or what the except clause returns
Drain(h, items, limit) ==
    LET l == DrainLoop(h, items, limit)
        appended == [j \in 1..l.taken |-> NextItem(h, items, j).item]
    IN [out |-> IF l.ended = "raise" THEN OnDrainError(appended) ELSE appended,
        pulls |-> l.pulls, ended |-> l.ended]

\* returns [out |-> the list, pulls, ended]
convert_iterable_to_list_rec(h, items, max_items, default_max) ==
    IF items.k = "none" THEN [out |-> <<>>, pulls |-> 0, ended |-> "none"]
    ELSE IF ~HasIter(h, items) \/ items.k = "str"
         THEN [out |-> IF Truthy(h, items) THEN <<items>> ELSE <<>>,
               pulls |-> 0, ended |-> "scalar"]
    ELSE Drain(h, items, EffectiveLimit(max_items, default_max))

convert_iterable_to_list(h, items, max_items, default_max) ==
    convert_iterable_to_list_rec(h, items, max_items, default_max).out

\* faulty variant, for sensitivity: draining leaves the generator where it was
HeapAfterDrainUnmoved(h, items, r) == h

\* the heap after items was drained: a generator has moved on, or is finished
HeapAfterDrain(h, items, r) ==
    IF IsKind(h, items, {"generator"}) /\ r.pulls > 0
    THEN LET g == h[items.v]
         IN [h EXCEPT ![items.v] =
                IF r.ended = "break" THEN [g EXCEPT !.pos = g.pos + r.pulls]
                ELSE [g EXCEPT !.pos = Len(g.vals), !.failAt = 0, !.endless = FALSE]]
    ELSE h

(***************************************************************************)
(* utils.py: extract_paginated_result                                      *)
(***************************************************************************)
\* the first non-None result.get(key), key in alternative_keys order
RECURSIVE FirstAlternative(_, _, _, _)
FirstAlternative(h, result, alternative_keys, i) ==
    IF i > Len(alternative_keys) THEN PyNone
    ELSE LET items == DictGet(h, result, PyStr(alternative_keys[i]))
         IN IF items.k # "none" THEN items
            ELSE FirstAlternative(h, result, alternative_keys, i + 1)

\* x or []
OrEmptyList(h, x) == IF Truthy(h, x) THEN x ELSE EmptyList

\* lines 189-196: the items of a dict result
DictItems(h, result, items_attr, alternative_keys) ==
    LET first == DictGet(h, result, PyStr(items_attr))
        second == IF first.k = "none" /\ Len(alternative_keys) > 0
                  THEN FirstAlternative(h, result, alternative_keys, 1)
                  ELSE first
    IN IF second.k = "none"
       THEN OrEmptyList(h, DictGet(h, result, PyStr("items")))
       ELSE second

\* faulty variant, for sensitivity: None is not answered first and falls
\* through to the last rule
DispatchNoneLast(h, result, items_attr) ==
    IF result.k = "none" THEN "single"
    ELSE IF result.k = "asyncgen" THEN "asyncgen"
    ELSE IF HasAttr(h, result, items_attr) THEN "attribute"
    ELSE IF HasIter(h, result) /\ result.k \notin {"str", "bytes"}
                               /\ ~IsKind(h, result, {"dict"})
         THEN "iterable"
    ELSE IF IsKind(h, result, {"dict"}) THEN "dict"
    ELSE "single"

\* faulty variant, for sensitivity: a result that no rule matches gives an
\* empty page
DispatchFallbackEmpty(h, result, items_attr) ==
    IF result.k = "none" THEN "none"
    ELSE IF result.k = "asyncgen" THEN "asyncgen"
    ELSE IF HasAttr(h, result, items_attr) THEN "attribute"
    ELSE IF HasIter(h, result) /\ result.k \notin {"str", "bytes"}
                               /\ ~IsKind(h, result, {"dict"})
         THEN "iterable"
    ELSE IF IsKind(h, result, {"dict"}) THEN "dict"
    ELSE "none"

\* which rule of the dispatch applies
Dispatch(h, result, items_attr) ==
    IF result.k = "none" THEN "none"
    ELSE IF result.k = "asyncgen" THEN "asyncgen"
    ELSE IF HasAttr(h, result, items_attr) THEN "attribute"
    ELSE IF HasIter(h, result) /\ result.k \notin {"str", "bytes"}
                               /\ ~IsKind(h, result, {"dict"})
         THEN "iterable"
    ELSE IF IsKind(h, result, {"dict"}) THEN "dict"
    ELSE "single"

\* returns [token, items, src |-> what was drained, r |-> how the drain went]
extract_paginated_result(h, result, items_attr, page_size, default_max, alternative_keys) ==
    LET rule == Dispatch(h, result, items_attr)
        nothing == [out |-> <<>>, pulls |-> 0, ended |-> "none"]
    IN CASE rule \in {"none", "asyncgen"} ->
                [token |-> PyNone, items |-> <<>>, src |-> PyNone, r |-> nothing]
         [] rule = "attribute" ->
                LET items == OrEmptyList(h, GetAttr(h, result, items_attr))
                    r == convert_iterable_to_list_rec(h, items, page_size, default_max)
                IN [token |-> get_next_page_token(h, result), items |-> r.out,
                    src |-> items, r |-> r]
         [] rule = "iterable" ->
                LET r == convert_iterable_to_list_rec(h, result, page_size, default_max)
                IN [token |-> PyNone, items |-> r.out, src |-> result, r |-> r]
         [] rule = "dict" ->
                LET items == DictItems(h, result, items_attr, alternative_keys)
                    r == convert_iterable_to_list_rec(h, items, page_size, default_max)
                IN [token |-> get_next_page_token(h, result), items |-> r.out,
                    src |-> items, r |-> r]
         [] OTHER ->
                [token |-> PyNone, items |-> <<result>>, src |-> PyNone, r |-> nothing]

(***************************************************************************)
(* Inputs of to_serializable: chains of nested containers.                 *)
(***************************************************************************)
Leaves ==
    { PyNone, PyBool(TRUE), PyInt(7), PyFloat("1.5"), PyStr("a"),
      EnumMember("RED", PyStr("red")),
      EnumMember("PAIR", RawTuple(<<PyInt(1), PyInt(2)>>)),
      EnumMember("OBJ", Opaque("object")),
      Opaque("Decimal") }

Patterns == {"list", "tuple", "dict", "object", "mixed", "keydict"}

KindAt(pat, i) ==
    IF pat = "mixed"
    THEN (CASE i % 4 = 1 -> "dict" [] i % 4 = 2 -> "list"
            [] i % 4 = 3 -> "object" [] OTHER -> "tuple")
    ELSE pat

ChainNode(kind, leaf, next) ==
    CASE kind = "dict" -> HeapNode("dict", <<PyStr("x"), PyStr("next")>>, <<leaf, next>>)
      [] kind = "keydict" ->
            HeapNode("dict", <<PyInt(1), RawTuple(<<PyInt(1), PyInt(2)>>)>>, <<leaf, next>>)
      [] kind = "object" ->
            HeapNode("object", <<PyStr("x"), PyStr("next"), PyStr("_hidden")>>, <<leaf, next, leaf>>)
      [] OTHER -> HeapNode(kind, <<>>, <<leaf, next>>)

\* n nested containers; the innermost holds tail (a leaf, or a reference back)
ChainHeap(n, pat, leaf, tail) ==
    [i \in 1..n |-> ChainNode(KindAt(pat, i), leaf, IF i < n THEN Ref(i + 1) ELSE tail)]

(***************************************************************************)
(* The state machine: one action per call.                                 *)
(***************************************************************************)
Invocations == 1..NumCalls

\* a tool invocation that has not begun
IdleCall ==
    [op |-> "init", arg |-> PyNone, pc |-> "idle", upstream |-> [kind |-> "none"],
     ret |-> PyNone, thread |-> "none", overlapped |-> FALSE]

\* AnkrAuth after __init__ (self._client = None), before any API object exists
NoClient == [handle |-> PyNone, writes |-> 0, apis |-> <<>>]

\* the process before main() runs
NoProcess == [status |-> "off", env |-> <<>>, key |-> PyNone, code |-> 0]

Init ==
    /\ heap = <<>>
    /\ op = "init"
    /\ arg = PyNone
    /\ ret = PyNone
    /\ pc = "idle"
    /\ fut = PyNone
    /\ thread = "none"
    /\ upstream = [kind |-> "none"]
    /\ calls = [i \in Invocations |-> IdleCall]
    /\ futures = [i \in Invocations |-> PyNone]
    /\ client = NoClient
    /\ proc = NoProcess

\* to_serializable(obj) on a chain of n containers with a leaf in each
CallToSerializable ==
    /\ UNCHANGED concVars
    /\ op = "init"
    /\ UNCHANGED <<pc, fut, thread, upstream>>
    /\ \E n \in 0..MaxChain, pat \in Patterns, leaf \in Leaves :
         \E tail \in {leaf} \cup {Ref(j) : j \in 1..n} :
            /\ (n = 0 => pat = "list")
            /\ heap' = ChainHeap(n, pat, leaf, tail)
            /\ op' = "to_serializable"
            /\ arg' = [n |-> n, pat |-> pat, leaf |-> leaf, tail |-> tail,
                       obj |-> IF n = 0 THEN leaf ELSE Ref(1)]
            /\ ret' = to_serializable(heap', arg'.obj)

(***************************************************************************)
(* Inputs of the paginator: raw results of every shape of the data model.  *)
(***************************************************************************)
SourceLens == (0..MaxSmallLen) \cup ((MAX_PAGE_SIZE - 1)..(MAX_PAGE_SIZE + MaxOver))

PageSizes ==
    {PyNone} \cup {PyInt(p) : p \in (-1..MaxSmallPage)
                              \cup ((MAX_PAGE_SIZE - 1)..(MAX_PAGE_SIZE + MaxOver))}

DefaultMaxes == {SmallMax, MAX_PAGE_SIZE}

ItemsSeq(n) == [i \in 1..n |-> PyInt(i)]

\* a token field of a response object or dict: its name and its value
TokenChoices ==
    { [name |-> "nextPageToken", val |-> PyNone],
      [name |-> "nextPageToken", val |-> PyStr("")],
      [name |-> "nextPageToken", val |-> PyStr("tok1")],
      [name |-> "next_page_token", val |-> PyStr("tok2")],
      [name |-> "nextPageToken", val |-> PyInt(5)] }

NoToken == [name |-> "nextPageToken", val |-> PyNone]

SequenceShapes == {"list", "tuple", "generator"}
SizedShapes ==
    SequenceShapes \cup {"gen_fail", "attr", "attr_gen", "attr_iter", "iter_obj",
                          "dict", "dict_alt", "dict_items", "dict_other"}
TokenShapes ==
    {"attr", "attr_none", "attr_gen", "attr_iter", "iter_obj",
     "dict", "dict_alt", "dict_items", "dict_other", "single"}
UnsizedShapes == {"none", "asyncgen", "attr_none", "single", "str", "bytes", "scalar"}

TokensOf(shape) == IF shape \in TokenShapes THEN TokenChoices ELSE {NoToken}

\* the raw results: [shape, n items, failAt for gen_fail, tc the token field]
RawShapes ==
    { [shape |-> sh, n |-> n, failAt |-> 0, tc |-> tc] :
        sh \in SizedShapes \ {"gen_fail"}, n \in SourceLens, tc \in TokenChoices }
    \cup { [shape |-> "gen_fail", n |-> n, failAt |-> f, tc |-> NoToken] :
            n \in SourceLens, f \in 1..(MAX_PAGE_SIZE + MaxOver + 1) }
    \cup { [shape |-> sh, n |-> 0, failAt |-> 0, tc |-> tc] :
            sh \in UnsizedShapes, tc \in TokenChoices }

\* generators that never end: they repeat their n items for ever
EndlessShapes ==
    { [shape |-> "gen_endless", n |-> n, failAt |-> 0, tc |-> NoToken] :
        n \in 1..MaxSmallLen }

WellFormedShape(rs) ==
    /\ rs.shape = "gen_fail" => rs.failAt \in {1, rs.n, rs.n + 1}
    /\ rs.tc \in TokensOf(rs.shape)

\* the heap and the raw result of a shape; field names the items, alt the
\* alternative key
BuildRaw(rs, field, alt) ==
    LET its == ItemsSeq(rs.n)
        tk == PyStr(rs.tc.name)
        tv == rs.tc.val
    IN CASE rs.shape = "none" -> [heap |-> <<>>, obj |-> PyNone]
         [] rs.shape = "asyncgen" -> [heap |-> <<>>, obj |-> AsyncGen]
         [] rs.shape = "str" -> [heap |-> <<>>, obj |-> PyStr("abc")]
         [] rs.shape = "bytes" -> [heap |-> <<>>, obj |-> PyBytes("abc")]
         [] rs.shape = "scalar" -> [heap |-> <<>>, obj |-> PyInt(5)]
         [] rs.shape \in {"list", "tuple"} ->
                [heap |-> <<HeapNode(rs.shape, <<>>, its)>>, obj |-> Ref(1)]
         [] rs.shape = "generator" ->
                [heap |-> <<Generator(its, 0, FALSE)>>, obj |-> Ref(1)]
         [] rs.shape = "gen_fail" ->
                [heap |-> <<Generator(its, rs.failAt, FALSE)>>, obj |-> Ref(1)]
         [] rs.shape = "gen_endless" ->
                [heap |-> <<Generator(its, 0, TRUE)>>, obj |-> Ref(1)]
         [] rs.shape = "attr" ->
                [heap |-> <<HeapNode("object", <<PyStr(field), tk>>, <<Ref(2), tv>>),
                            HeapNode("list", <<>>, its)>>, obj |-> Ref(1)]
         [] rs.shape = "attr_gen" ->
                [heap |-> <<HeapNode("object", <<PyStr(field), tk>>, <<Ref(2), tv>>),
                            Generator(its, 0, FALSE)>>, obj |-> Ref(1)]
         [] rs.shape = "attr_iter" ->
                [heap |-> <<HeapNode("object", <<PyStr(field), tk, PyStr("__iter__")>>,
                                     <<Ref(2), tv, Method("__iter__")>>),
                            HeapNode("list", <<>>, its)>>, obj |-> Ref(1)]
         [] rs.shape = "iter_obj" ->
                [heap |-> <<HeapNode("object", <<PyStr("other"), tk, PyStr("__iter__")>>,
                                     <<Ref(2), tv, Method("__iter__")>>),
                            HeapNode("list", <<>>, its)>>, obj |-> Ref(1)]
         [] rs.shape = "attr_none" ->
                [heap |-> <<HeapNode("object", <<PyStr(field), tk>>, <<PyNone, tv>>)>>,
                 obj |-> Ref(1)]
         [] rs.shape = "dict" ->
                [heap |-> <<HeapNode("dict", <<PyStr(field), tk>>, <<Ref(2), tv>>),
                            HeapNode("list", <<>>, its)>>, obj |-> Ref(1)]
         [] rs.shape = "dict_alt" ->
                [heap |-> <<HeapNode("dict", <<PyStr(alt), tk>>, <<Ref(2), tv>>),
                            HeapNode("list", <<>>, its)>>, obj |-> Ref(1)]
         [] rs.shape = "dict_items" ->
                [heap |-> <<HeapNode("dict", <<PyStr("items"), tk>>, <<Ref(2), tv>>),
                            HeapNode("list", <<>>, its)>>, obj |-> Ref(1)]
         [] rs.shape = "dict_other" ->
                [heap |-> <<HeapNode("dict", <<PyStr("other"), tk>>, <<Ref(2), tv>>),
                            HeapNode("list", <<>>, its)>>, obj |-> Ref(1)]
         [] rs.shape = "single" ->
                [heap |-> <<HeapNode("object", <<PyStr("hash"), tk>>, <<PyStr("0xabc"), tv>>)>>,
                 obj |-> Ref(1)]

\* what convert_iterable_to_list is given besides the raw results
ScalarItems == {PyInt(0), PyInt(5), PyStr(""), PyBool(FALSE), Opaque("Decimal")}

\* convert_iterable_to_list(items, max_items, default_max)
CallConvert ==
    /\ UNCHANGED concVars
    /\ op = "init"
    /\ UNCHANGED <<pc, fut, thread, upstream>>
    /\ \E rs \in RawShapes \cup EndlessShapes, max_items \in PageSizes,
          default_max \in DefaultMaxes :
         /\ WellFormedShape(rs)
         /\ rs.shape \in SequenceShapes
                         \cup {"gen_fail", "gen_endless", "dict", "none", "str", "single"}
         /\ rs.tc = NoToken
         /\ \E b \in {BuildRaw(rs, "assets", "nfts")} :
            \E r \in {convert_iterable_to_list_rec(b.heap, b.obj, max_items, default_max)} :
               /\ heap' = HeapAfterDrain(b.heap, b.obj, r)
               /\ op' = "convert_iterable_to_list"
               /\ arg' = [rs |-> rs, items |-> b.obj, page_size |-> max_items,
                          default_max |-> default_max]
               /\ ret' = r

\* convert_iterable_to_list(items, max_items) on a value that is no container
CallConvertScalar ==
    /\ UNCHANGED concVars
    /\ op = "init"
    /\ UNCHANGED <<pc, fut, thread, upstream>>
    /\ \E items \in ScalarItems, max_items \in PageSizes :
         /\ heap' = <<>>
         /\ op' = "convert_scalar"
         /\ arg' = [items |-> items, page_size |-> max_items, default_max |-> MAX_PAGE_SIZE]
         /\ ret' = convert_iterable_to_list_rec(heap', items, max_items, MAX_PAGE_SIZE)

AlternativeKeys == {<<>>, <<"nfts">>}

\* extract_paginated_result(result, "assets", page_size, default_max, alternative_keys)
CallExtract ==
    /\ UNCHANGED concVars
    /\ op = "init"
    /\ UNCHANGED <<pc, fut, thread, upstream>>
    /\ \E rs \in RawShapes, page_size \in PageSizes, default_max \in DefaultMaxes,
          alternative_keys \in AlternativeKeys :
         /\ WellFormedShape(rs)
         /\ (default_max = SmallMax \/ alternative_keys = <<>>) => rs.tc = NoToken
         /\ \E b \in {BuildRaw(rs, "assets", "nfts")} :
            \E e \in {extract_paginated_result(b.heap, b.obj, "assets", page_size,
                                               default_max, alternative_keys)} :
               /\ heap' = HeapAfterDrain(b.heap, e.src, e.r)
               /\ op' = "extract_paginated_result"
               /\ arg' = [rs |-> rs, result |-> b.obj, items_attr |-> "assets",
                          page_size |-> page_size, default_max |-> default_max,
                          alternative_keys |-> alternative_keys]
               /\ ret' = [token |-> e.token, out |-> e.items]

\* the names given as items_attr: one no built-in type has, and two that are
\* methods of dict
ItemsAttrs == {"assets", "items", "keys"}

MappingShapes == {"dict", "dict_alt", "dict_items", "dict_other"}

NamedShapes == MappingShapes \cup {"none"}

\* extract_paginated_result(result, items_attr, page_size, default_max,
\* alternative_keys) on None and on a dict whose items are under items_attr,
\* under the alternative key, under "items" or under another key
CallExtractNamed ==
    /\ UNCHANGED concVars
    /\ op = "init"
    /\ UNCHANGED <<pc, fut, thread, upstream>>
    /\ \E rs \in RawShapes, items_attr \in ItemsAttrs, page_size \in PageSizes,
          alternative_keys \in AlternativeKeys :
         /\ WellFormedShape(rs)
         /\ rs.shape \in NamedShapes
         /\ rs.n <= MaxSmallLen
         /\ IF page_size = PyNone THEN TRUE ELSE page_size.v \in 1..MaxSmallPage
         /\ \E b \in {BuildRaw(rs, items_attr, "nfts")} :
            \E e \in {extract_paginated_result(b.heap, b.obj, items_attr, page_size,
                                               MAX_PAGE_SIZE, alternative_keys)} :
               /\ heap' = HeapAfterDrain(b.heap, e.src, e.r)
               /\ op' = "extract_paginated_result"
               /\ arg' = [rs |-> rs, result |-> b.obj, items_attr |-> items_attr,
                          page_size |-> page_size, default_max |-> MAX_PAGE_SIZE,
                          alternative_keys |-> alternative_keys]
               /\ ret' = [token |-> e.token, out |-> e.items]

\* what a token field may hold; Absent: the source has no such field
Absent == [k |-> "absent"]
TokenValues ==
    {Absent, PyNone, PyStr(""), PyStr("tok1"), PyStr("tok2"), PyInt(0), PyInt(5), PyBool(TRUE)}

\* a source of kind "object" or "dict" with the two token fields, legacy name
\* first, and one field that is no token
TokenSource(kind, newer, legacy) ==
    LET fields == <<[key |-> PyStr("next_page_token"), val |-> legacy],
                    [key |-> PyStr("assets"), val |-> PyStr("tok9")],
                    [key |-> PyStr("nextPageToken"), val |-> newer]>>
        present == SelectSeq(fields, LAMBDA f : f.val # Absent)
    IN HeapNode(kind, [j \in 1..Len(present) |-> present[j].key],
                [j \in 1..Len(present) |-> present[j].val])

\* get_next_page_token(result) on an object or a mapping
CallGetNextPageToken ==
    /\ UNCHANGED concVars
    /\ op = "init"
    /\ UNCHANGED <<pc, fut, thread, upstream>>
    /\ \E kind \in {"object", "dict"}, newer \in TokenValues, legacy \in TokenValues :
         /\ heap' = <<TokenSource(kind, newer, legacy)>>
         /\ op' = "get_next_page_token"
         /\ arg' = [result |-> Ref(1), kind |-> kind, newer |-> newer, legacy |-> legacy]
         /\ ret' = get_next_page_token(heap', arg'.result)

\* get_next_page_token(result) on None and on values without fields
CallGetNextPageTokenPlain ==
    /\ UNCHANGED concVars
    /\ op = "init"
    /\ UNCHANGED <<pc, fut, thread, upstream>>
    /\ \E result \in {PyNone, PyStr("abc"), PyInt(5), Ref(1)} :
         /\ heap' = <<HeapNode("list", <<>>, <<PyStr("tok1")>>)>>
         /\ op' = "get_next_page_token_plain"
         /\ arg' = [result |-> result]
         /\ ret' = get_next_page_token(heap', arg'.result)

NextPag ==
    \/ CallConvert
    \/ CallConvertScalar
    \/ CallExtract
    \/ CallExtractNamed
    \/ CallGetNextPageToken
    \/ CallGetNextPageTokenPlain

SpecPag == Init /\ [][NextPag]_vars

(***************************************************************************)
(* api/nft.py, api/token.py, api/query.py: the facades.                    *)
(* A facade that uses the executor is three steps: the coroutine builds    *)
(* the upstream request and submits the job (FacadeStart), a worker thread *)
(* calls the SDK and extracts the page (WorkerRun), the coroutine resumes  *)
(* and builds the response (FacadeResume).                                 *)
(***************************************************************************)
DEFAULT_PAGE_SIZE == 50

ExecutorOps ==
    {"get_nfts_by_owner", "get_nft_holders", "get_nft_transfers", "get_token_holders",
     "get_token_transfers", "get_logs", "get_transactions_by_address", "get_interactions"}

\* the field of the response that holds the items, and of the raw result
ItemsField(opn) ==
    CASE opn = "get_nfts_by_owner" -> "assets"
      [] opn \in {"get_nft_holders", "get_token_holders"} -> "holders"
      [] opn \in {"get_nft_transfers", "get_token_transfers"} -> "transfers"
      [] opn = "get_logs" -> "logs"
      [] opn = "get_transactions_by_address" -> "transactions"
      [] opn = "get_interactions" -> "interactions"
      [] opn = "get_blocks" -> "blocks"
      [] opn = "get_account_balance" -> "assets"
      [] opn = "get_currencies" -> "currencies"

\* the attribute of the raw result the operation reads
RawField(opn) == IF opn = "get_interactions" THEN "blockchains" ELSE ItemsField(opn)

\* alternative_keys=["nfts"]
AlternativeKeysOf(opn) == IF opn = "get_nfts_by_owner" THEN <<"nfts">> ELSE <<>>

\* the operations whose whole body is inside try: ... except Exception
Guarded(opn) == opn \in {"get_nfts_by_owner", "get_transactions_by_address"}

\* the operations that return a pydantic response model with List[Dict[str, Any]]
HasResponseModel(opn) == opn \in {"get_token_holders", "get_token_transfers", "get_currencies"}

\* responses
OkPage(field, items, token) ==
    [status |-> "ok", field |-> field, items |-> items, token |-> token]
RaisedBy(exc) == [status |-> "raise", exc |-> exc]
OkValue(v) == [status |-> "ok", value |-> v]
NoTokenField == [k |-> "missing"]

\* {"<field>": [], "next_page_token": ""}
EmptyPage(opn) == OkPage(ItemsField(opn), <<>>, PyStr(""))

\* next_token or ""
OrEmptyString(h, token) == IF Truthy(h, token) THEN token ELSE PyStr("")

\* "next_page_token": next_token in get_nfts_by_owner, next_token or "" elsewhere
ResponseToken(opn, h, token) ==
    IF opn = "get_nfts_by_owner" THEN token
    ELSE IF opn = "get_interactions" THEN PyStr("")
    ELSE OrEmptyString(h, token)

\* pydantic: every item of a List[Dict[str, Any]] field is a dict with str keys
ValidDictItem(out) ==
    out.k = "map" /\ \A i \in 1..Len(out.keys) : out.keys[i].k = "str"

\* api/nft.py 222-227: the token id of a transfer, as a string
TransferTokenId(h, transfer) ==
    IF HasAttr(h, transfer, "tokenId") THEN StrOf(h, GetAttr(h, transfer, "tokenId"))
    ELSE IF IsKind(h, transfer, {"dict"})
         THEN (IF IndexOf(h[transfer.v].keys, PyStr("tokenId"), 1) = 0 THEN PyStr("")
               ELSE StrOf(h, DictGet(h, transfer, PyStr("tokenId"))))
    ELSE PyNone

\* faulty variant, for sensitivity: the page is returned unfiltered
FilterTransfersNothing(h, transfers, token_id) == transfers

\* api/nft.py 219-231: the client-side filter by token_id
FilterTransfers(h, transfers, token_id) ==
    IF ~Truthy(h, token_id) THEN transfers
    ELSE LET Matches(t) ==
                LET id == TransferTokenId(h, t)
                IN Truthy(h, id) /\ id = StrOf(h, token_id)
         IN SelectSeq(transfers, Matches)

\* [to_serializable(x) for x in items]
SerializeAll(h, items) == [i \in 1..Len(items) |-> to_serializable(h, items[i])]

\* the job get_interactions gives the executor (api/query.py 271-289)
InteractionsJob(h, result) ==
    IF result.k = "none" THEN <<>>
    ELSE IF IsKind(h, result, {"list"}) THEN h[result.v].vals
    ELSE IF HasAttr(h, result, "blockchains")
         THEN (LET b == GetAttr(h, result, "blockchains")
               IN IF Truthy(h, b) /\ IsKind(h, b, {"list", "tuple"}) THEN h[b.v].vals
                  ELSE <<>>)
    ELSE <<>>

\* the job the other operations give the executor: extract_paginated_result
\* inside try, (None, []) on any exception
PageJob(opn, h, result, page_size) ==
    extract_paginated_result(h, result, RawField(opn), page_size, MAX_PAGE_SIZE,
                             AlternativeKeysOf(opn))

\* what the coroutine returns once the job is done
ResumeResponse(opn, h, request, job) ==
    LET items == IF opn = "get_nft_transfers"
                 THEN FilterTransfers(h, job.items, request.token_id)
                 ELSE job.items
        outs == SerializeAll(h, items)
    IN IF HasResponseModel(opn) /\ ~(\A i \in 1..Len(outs) : ValidDictItem(outs[i]))
       THEN RaisedBy("ValidationError")
       ELSE OkPage(ItemsField(opn), outs, ResponseToken(opn, h, job.token))

(***************************************************************************)
(* What the upstream SDK may answer.                                       *)
(***************************************************************************)
\* an item object of a page: a transfer with a tokenId
ItemObject(i) ==
    HeapNode("object", <<PyStr("tokenId"), PyStr("value")>>,
             <<PyStr(IF i % 3 = 2 THEN "7" ELSE "8"), PyInt(i)>>)

\* a response object whose items field holds n item objects
ObjectPage(field, n, tc) ==
    <<HeapNode("object", <<PyStr(field), PyStr(tc.name)>>, <<Ref(2), tc.val>>),
      HeapNode("list", <<>>, [i \in 1..n |-> Ref(i + 2)])>>
    \o [i \in 1..n |-> ItemObject(i)]

\* a plain list of n item objects
ObjectList(n) ==
    <<HeapNode("list", <<>>, [i \in 1..n |-> Ref(i + 1)])>>
    \o [i \in 1..n |-> ItemObject(i)]

FacadeLens == {0, SmallMax, MaxSmallLen + 1, MAX_PAGE_SIZE + MaxOver}

FacadePageSizes ==
    {PyNone, PyInt(0), PyInt(SmallMax), PyInt(DEFAULT_PAGE_SIZE), PyInt(MAX_PAGE_SIZE + MaxOver)}

FacadeShapes ==
    {"none", "asyncgen", "str", "single", "list", "generator", "gen_fail",
     "attr", "attr_none", "dict", "dict_alt"}

\* the answers of the SDK: it raises, or returns a raw result
UpstreamAnswers ==
    {[kind |-> "raise"]}
    \cup { [kind |-> "raw", rs |-> rs] :
            rs \in { r \in RawShapes :
                       /\ r.shape \in FacadeShapes
                       /\ r.n \in FacadeLens
                       /\ WellFormedShape(r)
                       /\ r.shape = "gen_fail" => r.failAt = 1
                       /\ r.tc # NoToken => r.n = SmallMax } }
    \cup { [kind |-> "objects", n |-> n, tc |-> tc] :
            n \in FacadeLens, tc \in {NoToken, [name |-> "nextPageToken", val |-> PyStr("tok1")]} }
    \cup { [kind |-> "object_list", n |-> n] : n \in FacadeLens }

\* the heap and the raw result of an answer that is no exception
BuildAnswer(up, opn) ==
    IF up.kind = "objects"
    THEN [heap |-> ObjectPage(RawField(opn), up.n, up.tc), obj |-> Ref(1)]
    ELSE IF up.kind = "object_list"
         THEN [heap |-> ObjectList(up.n), obj |-> Ref(1)]
    ELSE BuildRaw(up.rs, RawField(opn), "nfts")

TokenIds == {PyNone, PyStr(""), PyStr("7")}

\* the coroutine up to its await: it builds the upstream request (the request
\* type of the SDK may reject the fields) and submits the job to the executor
FacadeStart ==
    /\ UNCHANGED concVars
    /\ op = "init" /\ pc = "idle"
    /\ \E opn \in ExecutorOps, page_size \in FacadePageSizes, token_id \in TokenIds,
          built \in BOOLEAN :
         /\ token_id # PyNone => opn = "get_nft_transfers"
         /\ op' = opn
         /\ arg' = [page_size |-> page_size, token_id |-> token_id]
         /\ IF built
            THEN pc' = "submitted" /\ ret' = ret
            ELSE /\ pc' = "done"
                 /\ ret' = IF Guarded(opn) THEN EmptyPage(opn) ELSE RaisedBy("ValidationError")
         /\ UNCHANGED <<heap, fut, thread, upstream>>

\* the job, on a worker thread of the executor: the SDK call and the extraction
WorkerRun ==
    /\ UNCHANGED concVars
    /\ pc = "submitted"
    /\ \E up \in UpstreamAnswers :
         /\ IF up.kind = "raise"
            THEN /\ fut' = [token |-> PyNone, items |-> <<>>]
                 /\ heap' = heap
            ELSE \E b \in {BuildAnswer(up, op)} :
                   IF op = "get_interactions"
                   THEN /\ fut' = [token |-> PyNone, items |-> InteractionsJob(b.heap, b.obj)]
                        /\ heap' = b.heap
                   ELSE \E e \in {PageJob(op, b.heap, b.obj, arg.page_size)} :
                          /\ fut' = [token |-> e.token, items |-> e.items]
                          /\ heap' = HeapAfterDrain(b.heap, e.src, e.r)
         /\ upstream' = up
    /\ pc' = "finished"
    /\ thread' = "worker"
    /\ UNCHANGED <<op, arg, ret>>

\* the coroutine after its await
FacadeResume ==
    /\ UNCHANGED concVars
    /\ pc = "finished"
    /\ ret' = ResumeResponse(op, heap, arg, fut)
    /\ pc' = "done"
    /\ UNCHANGED <<heap, op, arg, fut, thread, upstream>>

NextExecutor == FacadeStart \/ WorkerRun \/ FacadeResume

(***************************************************************************)
(* The facades that call the SDK on the event loop: no executor, no try.   *)
(***************************************************************************)
DEFAULT_CURRENCIES_LIMIT == 20
MAX_CURRENCIES_LIMIT == 50

DirectListOps == {"get_blocks", "get_account_balance", "get_currencies"}

\* for x in result, to the end of result
IterateAll(h, x) ==
    IF ~HasIter(h, x) THEN [status |-> "raise", items |-> <<>>]
    ELSE IF x.k = "str"
         THEN [status |-> "ok", items |-> [i \in 1..Len(x.v) |-> PyStr(SubSeq(x.v, i, i))]]
    ELSE IF IsKind(h, x, {"generator"})
         THEN (LET g == h[x.v]
               IN IF g.failAt > g.pos /\ g.failAt <= Len(g.vals) + 1
                  THEN [status |-> "raise", items |-> <<>>]
                  ELSE [status |-> "ok", items |-> SubSeq(g.vals, g.pos + 1, Len(g.vals))])
    ELSE [status |-> "ok", items |-> IterItems(h, x)]

\* the heap once result has been iterated to its end
HeapAfterAll(h, x) ==
    IF IsKind(h, x, {"generator"})
    THEN (LET g == h[x.v]
              stop == IF g.failAt > g.pos /\ g.failAt <= Len(g.vals) + 1
                      THEN g.failAt ELSE Len(g.vals)
          IN [h EXCEPT ![x.v] = [g EXCEPT !.pos = stop]])
    ELSE h

\* seq[:limit]
SlicePrefix(seq, limit) ==
    IF limit >= 0 THEN SubSeq(seq, 1, Min(limit, Len(seq)))
    ELSE SubSeq(seq, 1, IF Len(seq) + limit > 0 THEN Len(seq) + limit ELSE 0)

\* api/query.py 163-169
BlocksResponse(h, result) ==
    IF HasIter(h, result) /\ ~(result.k = "str" \/ IsKind(h, result, {"dict"}))
    THEN (IF ~Truthy(h, result) THEN EmptyPage("get_blocks")
          ELSE LET all == IterateAll(h, result)
               IN IF all.status = "raise" THEN RaisedBy("Exception")
                  ELSE OkPage("blocks", SerializeAll(h, all.items), PyStr("")))
    ELSE IF Truthy(h, result)
         THEN OkPage("blocks", <<to_serializable(h, result)>>, PyStr(""))
    ELSE EmptyPage("get_blocks")

\* api/token.py 139-141
AccountBalanceResponse(h, result) ==
    IF ~Truthy(h, result) THEN OkPage("assets", <<>>, NoTokenField)
    ELSE LET all == IterateAll(h, result)
         IN IF all.status = "raise" THEN RaisedBy("TypeError")
            ELSE OkPage("assets", SerializeAll(h, all.items), NoTokenField)

\* min(request.page_size or DEFAULT_CURRENCIES_LIMIT, MAX_CURRENCIES_LIMIT)
CurrenciesLimit(h, page_size) ==
    Min(IF Truthy(h, page_size) THEN page_size.v ELSE DEFAULT_CURRENCIES_LIMIT,
        MAX_CURRENCIES_LIMIT)

\* api/token.py 159-169
CurrenciesResponse(h, result, page_size) ==
    LET all == IF Truthy(h, result) THEN IterateAll(h, result)
               ELSE [status |-> "ok", items |-> <<>>]
        limit == CurrenciesLimit(h, page_size)
        currencies_raw == IF Len(all.items) > limit THEN SlicePrefix(all.items, limit)
                          ELSE all.items
        currencies == SerializeAll(h, currencies_raw)
    IN IF all.status = "raise" THEN RaisedBy("TypeError")
       ELSE IF ~(\A i \in 1..Len(currencies) : ValidDictItem(currencies[i]))
            THEN RaisedBy("ValidationError")
       ELSE OkPage("currencies", currencies, NoTokenField)

DirectResponse(opn, h, result, page_size) ==
    CASE opn = "get_blocks" -> BlocksResponse(h, result)
      [] opn = "get_account_balance" -> AccountBalanceResponse(h, result)
      [] opn = "get_currencies" -> CurrenciesResponse(h, result, page_size)

\* the whole coroutine of get_blocks, get_account_balance or get_currencies:
\* nothing in it awaits and nothing catches
CallDirectList ==
    /\ UNCHANGED concVars
    /\ op = "init" /\ pc = "idle"
    /\ \E opn \in DirectListOps, page_size \in FacadePageSizes \cup {PyInt(-1)},
          built \in BOOLEAN, up \in UpstreamAnswers :
         /\ op' = opn
         /\ arg' = [page_size |-> page_size, token_id |-> PyNone]
         /\ IF ~built
            THEN /\ ret' = RaisedBy("ValidationError")
                 /\ UNCHANGED <<heap, thread, upstream>>
            ELSE /\ thread' = "loop"
                 /\ upstream' = up
                 /\ IF up.kind = "raise"
                    THEN ret' = RaisedBy("UpstreamError") /\ heap' = heap
                    ELSE \E b \in {BuildAnswer(up, opn)} :
                           /\ ret' = DirectResponse(opn, b.heap, b.obj, page_size)
                           /\ heap' = HeapAfterAll(b.heap, b.obj)
         /\ pc' = "done"
         /\ fut' = fut

(***************************************************************************)
(* Scalar lookups.                                                         *)
(***************************************************************************)
ScalarOps ==
    {"get_token_price", "get_token_holders_count", "get_nft_metadata",
     "get_transactions_by_hash"}

\* float(text): the texts that parse, with the repr of the float
FloatTable ==
    ("0" :> "0.0") @@ ("1.0023" :> "1.0023") @@ ("1.5" :> "1.5") @@ ("3" :> "3.0")

\* json.loads(text): the texts that are JSON documents, with what they hold
JsonTable ==
    ("{\"usdPrice\": \"1.5\"}" :> [k |-> "dict", keys |-> <<"usdPrice">>, vals |-> <<PyStr("1.5")>>])
    @@ ("{\"usdPrice\": null}" :> [k |-> "dict", keys |-> <<"usdPrice">>, vals |-> <<PyNone>>])
    @@ ("{\"price\": 2}" :> [k |-> "dict", keys |-> <<"price">>, vals |-> <<PyInt(2)>>])
    @@ ("{\"price_usd\": \"3\"}" :> [k |-> "dict", keys |-> <<"price_usd">>, vals |-> <<PyStr("3")>>])
    @@ ("{\"other\": 1}" :> [k |-> "dict", keys |-> <<"other">>, vals |-> <<PyInt(1)>>])
    @@ ("[1]" :> [k |-> "list", keys |-> <<>>, vals |-> <<PyInt(1)>>])

\* text.strip() == ""
IsBlank(text) == \A i \in 1..Len(text) : SubSeq(text, i, i) = " "

PRICE_KEYS == <<"usdPrice", "price", "price_usd">>

\* the first of PRICE_KEYS whose flag is set (the if / elif chains), 0 when
\* none is
FirstPriceKey(found) ==
    IF found[1] THEN 1 ELSE IF found[2] THEN 2 ELSE IF found[3] THEN 3 ELSE 0

\* {"price_usd": text}
PriceResponse(text) == OkValue(OutMap(<<PyStr("price_usd")>>, <<text>>))

\* api/token.py 187-207: the result is a string
PriceOfText(h, text) ==
    IF text = "" \/ IsBlank(text) THEN PriceResponse(PyStr("0"))
    ELSE IF text \in DOMAIN FloatTable THEN PriceResponse(PyStr(text))
    ELSE IF text \in DOMAIN JsonTable /\ JsonTable[text].k = "dict"
         THEN (LET data == JsonTable[text]
                   Has(key) == IndexOf(data.keys, key, 1) # 0
                   i == FirstPriceKey([j \in 1..3 |-> Has(PRICE_KEYS[j])])
               IN IF i = 0 THEN PriceResponse(PyStr(text))
                  ELSE PriceResponse(StrOf(h, data.vals[IndexOf(data.keys, PRICE_KEYS[i], 1)])))
    ELSE PriceResponse(PyStr(text))

\* float(x) if x else 0
FloatOrZero(h, x) ==
    IF ~Truthy(h, x) THEN PyInt(0)
    ELSE IF x.k = "float" THEN x
    ELSE IF x.k = "int" THEN PyFloat(ToString(x.v) \o ".0")
    ELSE IF x.k = "str" /\ x.v \in DOMAIN FloatTable THEN PyFloat(FloatTable[x.v])
    ELSE Raised("ValueError")

\* api/token.py 180-221
TokenPriceResponse(h, result) ==
    IF result.k = "none" THEN RaisedBy("ValueError")
    ELSE IF result.k = "str" THEN PriceOfText(h, result.v)
    ELSE LET Has(key) == HasAttr(h, result, key)
             i == FirstPriceKey([j \in 1..3 |-> Has(PRICE_KEYS[j])])
         IN IF i = 0 THEN RaisedBy("ValueError")
            ELSE LET price_value == FloatOrZero(h, GetAttr(h, result, PRICE_KEYS[i]))
                 IN IF price_value.k = "raise" THEN RaisedBy("ValueError")
                    ELSE PriceResponse(StrOf(h, price_value))

\* api/token.py 267-269; TokenHoldersCountResponse.count is an int
HoldersCountResponse(h, result) ==
    LET count == IF HasAttr(h, result, "count") THEN GetAttr(h, result, "count")
                 ELSE PyInt(0)
    IN IF count.k = "int" THEN OkValue(OutMap(<<PyStr("count")>>, <<count>>))
       ELSE RaisedBy("ValidationError")

ScalarResponse(opn, h, result) ==
    CASE opn = "get_token_price" -> TokenPriceResponse(h, result)
      [] opn = "get_token_holders_count" -> HoldersCountResponse(h, result)
      [] OTHER -> OkValue(to_serializable(h, result))

PriceTexts ==
    {"", "  ", "0", "1.0023", "abc", "{\"usdPrice\": \"1.5\"}", "{\"usdPrice\": null}",
     "{\"price\": 2}", "{\"price_usd\": \"3\"}", "{\"other\": 1}", "[1]"}

\* an object with one field
OneField(name, val) == <<HeapNode("object", <<PyStr(name)>>, <<val>>)>>

ValueAnswer(h, obj) == [kind |-> "value", heap |-> h, obj |-> obj]

\* the answers of the SDK to a scalar lookup
ScalarAnswers(opn) ==
    {[kind |-> "raise"], ValueAnswer(<<>>, PyNone),
     ValueAnswer(OneField("hash", PyStr("0xabc")), Ref(1)),
     ValueAnswer(<<HeapNode("dict", <<PyStr("count"), PyStr("usdPrice")>>,
                            <<PyInt(5), PyStr("1.5")>>)>>, Ref(1)),
     ValueAnswer(<<HeapNode("list", <<>>, <<PyInt(1)>>)>>, Ref(1))}
    \cup (CASE opn = "get_token_price" ->
                 { ValueAnswer(<<>>, PyStr(t)) : t \in PriceTexts }
                 \cup { ValueAnswer(OneField(PRICE_KEYS[i], v), Ref(1)) :
                          i \in 1..3,
                          v \in {PyStr("1.5"), PyStr("abc"), PyStr(""), PyNone, PyInt(0),
                                 PyInt(3), PyFloat("2.5")} }
            [] opn = "get_token_holders_count" ->
                 { ValueAnswer(OneField("count", v), Ref(1)) :
                          v \in {PyInt(5), PyInt(0), PyNone, PyStr("many")} }
                 \cup {ValueAnswer(<<>>, PyStr("abc"))}
            [] OTHER -> {ValueAnswer(<<>>, PyStr("abc"))})

\* the whole coroutine of a scalar lookup: request, SDK call on the event
\* loop, response
CallScalar ==
    /\ UNCHANGED concVars
    /\ op = "init" /\ pc = "idle"
    /\ \E opn \in ScalarOps, built \in BOOLEAN :
         \E up \in ScalarAnswers(opn) :
           /\ op' = opn
           /\ arg' = [page_size |-> PyNone, token_id |-> PyNone]
           /\ IF ~built
              THEN /\ ret' = RaisedBy("ValidationError")
                   /\ UNCHANGED <<heap, thread, upstream>>
              ELSE /\ thread' = "loop"
                   /\ upstream' = up
                   /\ IF up.kind = "raise"
                      THEN ret' = RaisedBy("UpstreamError") /\ heap' = heap
                      ELSE /\ ret' = ScalarResponse(opn, up.heap, up.obj)
                           /\ heap' = up.heap
           /\ pc' = "done"
           /\ fut' = fut

NextFacade == NextExecutor \/ CallDirectList \/ CallScalar

(***************************************************************************)
(* server.py, auth.py: the shared client handle; concurrent invocations.   *)
(* The steps of coroutines run one at a time on the event loop; a job runs *)
(* on a worker thread and works on its own request and on the result the   *)
(* SDK returned to it.                                                     *)
(***************************************************************************)
\* AnkrWeb3(api_key=self.private_key)
NewHandle == Opaque("AnkrWeb3")

\* auth.py 35-40: the client property; the state of AnkrAuth after the read
ClientProperty(c) ==
    IF c.handle = PyNone THEN [c EXCEPT !.handle = NewHandle, !.writes = @ + 1]
    ELSE c

\* server.py 59-70: init_server builds the three API objects, each from one
\* read of _auth.client
BuildApis ==
    /\ client.apis = <<>>
    /\ LET first == ClientProperty(client)
           second == ClientProperty(first)
           third == ClientProperty(second)
       IN client' = [third EXCEPT !.apis = <<first.handle, second.handle, third.handle>>]
    /\ UNCHANGED <<calls, futures>>
    /\ UNCHANGED callVars

\* init_server called with a key
InitServer == BuildApis /\ UNCHANGED proc

\* faulty variant, for sensitivity: every invocation awaits the same future
FutureShared(i) == 1

\* loop.run_in_executor(None, job) returns a future of its own to each call
FutureOf(i) == i

\* another invocation is between its submission and its response
OthersInFlight(i) ==
    \E j \in Invocations \ {i} : calls[j].pc \in {"submitted", "finished"}

\* the requests of the concurrent invocations
ConcRequests ==
    { [op |-> "get_nft_transfers", page_size |-> PyNone, token_id |-> PyStr("7")],
      [op |-> "get_logs", page_size |-> PyInt(1), token_id |-> PyNone] }

\* what the SDK answers to them
ConcAnswers ==
    { up \in UpstreamAnswers :
        \/ up.kind = "raise"
        \/ up.kind = "objects" /\ up.n = MaxSmallLen + 1 /\ up.tc # NoToken
        \/ /\ up.kind = "raw"
           /\ up.rs.shape = "generator" /\ up.rs.n = SmallMax /\ up.rs.tc = NoToken }

ConcPriceAnswers ==
    { up \in ScalarAnswers("get_token_price") :
        \/ up.kind = "raise"
        \/ up.kind = "value" /\ up.obj \in {PyStr("1.0023"), PyStr("abc")} }

\* the coroutine of invocation i up to its await
ConcStart(i) ==
    /\ client.apis # <<>>
    /\ calls[i].pc = "idle"
    /\ \E request \in ConcRequests :
         calls' = [calls EXCEPT ![i] =
                     [@ EXCEPT !.op = request.op,
                               !.arg = [page_size |-> request.page_size,
                                        token_id |-> request.token_id],
                               !.pc = "submitted"]]
    /\ UNCHANGED <<futures, client, proc>>
    /\ UNCHANGED callVars

\* the job of invocation i, on a worker thread
ConcWorker(i) ==
    /\ calls[i].pc = "submitted"
    /\ \E up \in ConcAnswers :
         IF up.kind = "raise"
         THEN /\ futures' = [futures EXCEPT ![FutureOf(i)] =
                                [token |-> PyNone, items |-> <<>>, heap |-> <<>>]]
              /\ calls' = [calls EXCEPT ![i] =
                              [@ EXCEPT !.pc = "finished", !.upstream = up,
                                        !.thread = "worker",
                                        !.overlapped = @ \/ OthersInFlight(i)]]
         ELSE \E b \in {BuildAnswer(up, calls[i].op)} :
              \E e \in {PageJob(calls[i].op, b.heap, b.obj, calls[i].arg.page_size)} :
                /\ futures' = [futures EXCEPT ![FutureOf(i)] =
                                  [token |-> e.token, items |-> e.items,
                                   heap |-> HeapAfterDrain(b.heap, e.src, e.r)]]
                /\ calls' = [calls EXCEPT ![i] =
                                [@ EXCEPT !.pc = "finished", !.upstream = up,
                                          !.thread = "worker",
                                          !.overlapped = @ \/ OthersInFlight(i)]]
    /\ UNCHANGED <<client, proc>>
    /\ UNCHANGED callVars

\* the coroutine of invocation i after its await
ConcResume(i) ==
    /\ calls[i].pc = "finished"
    /\ calls' = [calls EXCEPT ![i] =
                    [@ EXCEPT !.pc = "done",
                              !.ret = ResumeResponse(calls[i].op,
                                                     futures[FutureOf(i)].heap,
                                                     calls[i].arg, futures[FutureOf(i)]),
                              !.overlapped = @ \/ OthersInFlight(i)]]
    /\ UNCHANGED <<futures, client, proc>>
    /\ UNCHANGED callVars

\* a whole get_token_price coroutine: it never awaits, so it is one step of
\* the event loop
ConcDirect(i) ==
    /\ client.apis # <<>>
    /\ calls[i].pc = "idle"
    /\ \E up \in ConcPriceAnswers :
         calls' = [calls EXCEPT ![i] =
                     [@ EXCEPT !.op = "get_token_price",
                               !.arg = [page_size |-> PyNone, token_id |-> PyNone],
                               !.pc = "done",
                               !.upstream = up,
                               !.thread = "loop",
                               !.ret = IF up.kind = "raise" THEN RaisedBy("UpstreamError")
                                       ELSE ScalarResponse("get_token_price", up.heap, up.obj),
                               !.overlapped = @ \/ OthersInFlight(i)]]
    /\ UNCHANGED <<futures, client, proc>>
    /\ UNCHANGED callVars

NextConc ==
    \/ InitServer
    \/ \E i \in Invocations : ConcStart(i)
    \/ \E i \in Invocations : ConcWorker(i)
    \/ \E i \in Invocations : ConcResume(i)
    \/ \E i \in Invocations : ConcDirect(i)

SpecConc == Init /\ [][NextConc]_vars

(***************************************************************************)
(* __main__.py, auth.py: the start of the process.                         *)
(***************************************************************************)
\* the variables of the environment that hold the credential
ENV_NAMES == <<"ANKR_PRIVATE_KEY", "ANKR_API_KEY", "DOTENV_PRIVATE_KEY_DEVIN">>

\* os.environ.get(name): None, or the text
EnvValues == {PyNone, PyStr(""), PyStr("key")}

Environments == [1..Len(ENV_NAMES) -> EnvValues]

\* faulty variant, for sensitivity: no key counts as missing
MissingKeyNever(key) == FALSE

\* not private_key
MissingKey(key) == ~Truthy(<<>>, key)

\* a or b
PyOr(a, b) == IF Truthy(<<>>, a) THEN a ELSE b

\* __main__.py 14: ANKR_PRIVATE_KEY or ANKR_API_KEY
MainKey(env) == PyOr(env[1], env[2])

\* auth.py 23-28: private_key, else the three variables in order
AuthKey(private_key, env) == PyOr(PyOr(PyOr(private_key, env[1]), env[2]), env[3])

\* main(): it reads the environment, exits with status 1 when it finds no
\* key, else calls init_server (AnkrAuth raises when it finds no key, which
\* ends the process with status 1 as well) and serves
Main ==
    /\ proc.status = "off"
    /\ \E env \in Environments :
         IF MissingKey(MainKey(env))
         THEN /\ proc' = [status |-> "exited", env |-> env, key |-> MainKey(env),
                          code |-> 1]
              /\ UNCHANGED <<calls, futures, client>>
              /\ UNCHANGED callVars
         ELSE IF MissingKey(AuthKey(MainKey(env), env))
              THEN /\ proc' = [status |-> "exited", env |-> env,
                               key |-> AuthKey(MainKey(env), env), code |-> 1]
                   /\ UNCHANGED <<calls, futures, client>>
                   /\ UNCHANGED callVars
         ELSE /\ proc' = [status |-> "serving", env |-> env,
                          key |-> AuthKey(MainKey(env), env), code |-> 0]
              /\ BuildApis

NextStart == Main \/ \E i \in Invocations : ConcDirect(i)

SpecStart == Init /\ [][NextStart]_vars

\* Scenario C: root = {a: 1, b: [1, 2, root]}
ScenarioC ==
    <<HeapNode("dict", <<PyStr("a"), PyStr("b")>>, <<PyInt(1), Ref(2)>>),
      HeapNode("list", <<>>, <<PyInt(1), PyInt(2), Ref(1)>>)>>

\* a diamond: root = [a, b], a = {x: s}, b = {x: s}, s = [7]
Diamond ==
    <<HeapNode("list", <<>>, <<Ref(2), Ref(3)>>),
      HeapNode("dict", <<PyStr("x")>>, <<Ref(4)>>),
      HeapNode("dict", <<PyStr("x")>>, <<Ref(4)>>),
      HeapNode("list", <<>>, <<PyInt(7)>>)>>

FixedInputs == [scenarioC |-> ScenarioC, diamond |-> Diamond]

\* to_serializable(obj) on a fixed object graph
CallToSerializableFixed ==
    /\ UNCHANGED concVars
    /\ op = "init"
    /\ UNCHANGED <<pc, fut, thread, upstream>>
    /\ \E name \in DOMAIN FixedInputs :
            /\ heap' = FixedInputs[name]
            /\ op' = "to_serializable_fixed"
            /\ arg' = [name |-> name, obj |-> Ref(1)]
            /\ ret' = to_serializable(heap', arg'.obj)

\* the values a field of a node of an object graph may hold: a primitive, or
\* any node of the graph (itself, an ancestor, a node another field holds)
GraphSlots == {PyInt(7)} \cup {Ref(j) : j \in 1..GraphSize}

\* object graphs of GraphSize containers (a dict and a list, or objects), two
\* fields each
GraphHeaps ==
    { [i \in 1..GraphSize |-> ChainNode(KindAt(pat, i), f[i][1], f[i][2])] :
        pat \in {"mixed", "object"}, f \in [1..GraphSize -> GraphSlots \X GraphSlots] }

\* to_serializable(obj) on the first node of an object graph
CallToSerializableGraph ==
    /\ UNCHANGED concVars
    /\ op = "init"
    /\ UNCHANGED <<pc, fut, thread, upstream>>
    /\ \E g \in GraphHeaps :
            /\ heap' = g
            /\ op' = "to_serializable_graph"
            /\ arg' = [obj |-> Ref(1)]
            /\ ret' = to_serializable(heap', arg'.obj)

\* names an object may carry in its __dict__: public ones, private ones and
\* the payload field of an enum-like wrapper
FieldNames == <<"_name_", "_value_", "x", "_hidden", "y">>

\* the fields of an object that carries the names at the positions in chosen
FieldsChosen(chosen) ==
    LET idx == SelectSeq([i \in 1..Len(FieldNames) |-> i], LAMBDA i : i \in chosen)
    IN [j \in 1..Len(idx) |-> PyStr(FieldNames[idx[j]])]

\* to_serializable(obj) on an object whose fields all hold val: a leaf, or
\* the list [1, RED]
CallToSerializableObject ==
    /\ UNCHANGED concVars
    /\ op = "init"
    /\ UNCHANGED <<pc, fut, thread, upstream>>
    /\ \E chosen \in SUBSET (1..Len(FieldNames)), val \in Leaves \cup {Ref(2)} :
            /\ heap' = <<HeapNode("object", FieldsChosen(chosen),
                                   [j \in 1..Cardinality(chosen) |-> val]),
                          HeapNode("list", <<>>,
                                   <<PyInt(1), EnumMember("RED", PyStr("red"))>>)>>
            /\ op' = "to_serializable_object"
            /\ arg' = [obj |-> Ref(1), val |-> val]
            /\ ret' = to_serializable(heap', arg'.obj)

NextSer ==
    \/ CallToSerializable
    \/ CallToSerializableFixed
    \/ CallToSerializableGraph
    \/ CallToSerializableObject

SpecSer == Init /\ [][NextSer]_vars

\* a second to_serializable(obj) on the object graph of the first call
CallToSerializableAgain ==
    /\ UNCHANGED concVars
    /\ op \in {"to_serializable", "to_serializable_fixed", "to_serializable_graph",
               "to_serializable_object"}
    /\ UNCHANGED <<heap, arg, pc, fut, thread, upstream>>
    /\ op' = "to_serializable_again"
    /\ ret' = [first |-> ret, second |-> to_serializable(heap, arg.obj)]

\* a second extract_paginated_result with the arguments of the first call, on
\* the raw result as the first call left it
CallExtractAgain ==
    /\ UNCHANGED concVars
    /\ op = "extract_paginated_result"
    /\ UNCHANGED <<arg, pc, fut, thread, upstream>>
    /\ \E e \in {extract_paginated_result(heap, arg.result, arg.items_attr,
                                           arg.page_size, arg.default_max,
                                           arg.alternative_keys)} :
         /\ heap' = HeapAfterDrain(heap, e.src, e.r)
         /\ op' = "extract_paginated_result_again"
         /\ ret' = [first |-> ret, second |-> [token |-> e.token, out |-> e.items]]

NextPure == NextSer \/ NextPag \/ CallToSerializableAgain \/ CallExtractAgain

SpecPure == Init /\ [][NextPure]_vars

SpecFacade == Init /\ [][NextFacade]_vars

Next == NextPure \/ NextFacade \/ NextConc \/ NextStart

Spec == Init /\ [][Next]_vars

(***************************************************************************)
(* Reading serialised output along a chain: child 1 of a container is the  *)
(* leaf, child 2 the next container (or the tail).                         *)
(***************************************************************************)
Missing == [k |-> "missing"]

IsContainerOut(out) == out.k \in {"list", "map"}

RECURSIVE Descend(_, _)
Descend(out, steps) ==
    IF steps = 0 THEN out
    ELSE IF IsContainerOut(out) /\ Len(out.v) >= 2 THEN Descend(out.v[2], steps - 1)
    ELSE Missing

\* the output at the leaf of the d-th container (nesting depth d)
LeafOut(out, d) ==
    LET c == Descend(out, d - 1)
    IN IF IsContainerOut(c) /\ Len(c.v) >= 1 THEN c.v[1] ELSE Missing


IsChainCall == op = "to_serializable"
IsCyclicCall == IsChainCall /\ arg.tail.k = "ref"

\* the same chain with the back reference replaced by the sentinel string
WithoutCycle == to_serializable(ChainHeap(arg.n, arg.pat, arg.leaf, CIRCULAR), arg.obj)

(***************************************************************************)
(* C6  Termination on cycles.                                              *)
(***************************************************************************)
\* C6 (as stated): for every input with a reference cycle, the position that
\* closes the cycle is rendered as "<circular reference>" and every other
\* position is serialised as it would be without the cycle.
C6_Original ==
    IsCyclicCall => (Descend(ret, arg.n) = CIRCULAR /\ ret = WithoutCycle)

\* C6 (amended): the same, for a cycle whose closing position lies at nesting
\* depth <= 10; a closing position deeper than that is cut by the depth limit
\* first and is rendered as the textual representation of the object there.
\* Scenario C: {a: 1, b: [1, 2, root]} gives {a: 1, b: [1, 2, sentinel]}.
C6_CycleCutWithinDepth ==
    /\ (IsCyclicCall /\ arg.n <= max_depth) =>
            (Descend(ret, arg.n) = CIRCULAR /\ ret = WithoutCycle)
    /\ (IsCyclicCall /\ arg.n = max_depth + 1) =>
            Descend(ret, arg.n) = StrOf(heap, arg.tail)
    /\ (op = "to_serializable_fixed" /\ arg.name = "scenarioC") =>
            ret = OutMap(<<PyStr("a"), PyStr("b")>>,
                         <<PyInt(1), OutList(<<PyInt(1), PyInt(2), CIRCULAR>>)>>)

C6_Witness ==
    /\ IsCyclicCall /\ arg.n = max_depth /\ arg.tail = Ref(1)
    /\ Descend(ret, arg.n) = CIRCULAR


(***************************************************************************)
(* C7  Depth bound.                                                        *)
(***************************************************************************)
\* every output position deeper than the ceiling holds a string
RECURSIVE BeyondCeilingIsString(_, _)
BeyondCeilingIsString(out, d) ==
    IF d > max_depth THEN out.k = "str"
    ELSE IF IsContainerOut(out)
         THEN \A i \in 1..Len(out.v) : BeyondCeilingIsString(out.v[i], d + 1)
         ELSE TRUE

\* the output node a heap object of this kind is converted to
OutKindOf(kind) == IF kind \in {"list", "tuple"} THEN "list" ELSE "map"

IsPrimitiveLeaf == IsChainCall /\ arg.leaf.k \in {"none", "bool", "int", "float", "str"}

\* C8 (as stated): a primitive is returned unchanged, also wherever it occurs
\* as a leaf inside the containers of the input.
C8_Original ==
    IsPrimitiveLeaf =>
        /\ arg.n = 0 => ret = arg.leaf
        /\ \A d \in 1..arg.n : LeafOut(ret, d) \in {arg.leaf, Missing}

\* C8 (amended): a primitive input, and a primitive leaf at nesting depth
\* <= 10, is returned unchanged; a primitive leaf at depth 11 is replaced by
\* its textual representation (so only a string stays what it was).
C8_ScalarsUnchangedWithinDepth ==
    IsPrimitiveLeaf =>
        /\ arg.n = 0 => ret = arg.leaf
        /\ \A d \in 1..Min(arg.n, max_depth) : LeafOut(ret, d) = arg.leaf
        /\ arg.n > max_depth => LeafOut(ret, max_depth + 1) = StrOf(heap, arg.leaf)

C8_Witness ==
    /\ IsPrimitiveLeaf /\ arg.leaf = PyInt(7) /\ arg.n = max_depth + 1
    /\ LeafOut(ret, max_depth) = PyInt(7)
    /\ LeafOut(ret, max_depth + 1) = PyStr("7")

(***************************************************************************)
(* C9  to_serializable never fails.                                        *)
(***************************************************************************)
RECURSIVE NoRaise(_)
NoRaise(out) ==
    /\ out.k # "raise"
    /\ IsContainerOut(out) => \A i \in 1..Len(out.v) : NoRaise(out.v[i])

RECURSIVE IsJSONValue(_)
IsJSONValue(out) ==
    \/ out.k \in {"none", "bool", "int", "float", "str"}
    \/ /\ out.k = "list"
       /\ \A i \in 1..Len(out.v) : IsJSONValue(out.v[i])
    \/ /\ out.k = "map"
       /\ \A i \in 1..Len(out.keys) : out.keys[i].k = "str"
       /\ \A i \in 1..Len(out.v) : IsJSONValue(out.v[i])

\* C10: every value to_serializable returns is a JSONValue: null, bool,
\* number, string, a list of JSONValue, or a map with string keys and
\* JSONValue values.
C10_OutputIsJSONValue ==
    op \in {"to_serializable", "to_serializable_fixed"} => IsJSONValue(ret)


(***************************************************************************)
(* C1  Bounding invariant.                                                 *)
(***************************************************************************)
\* min(requested_page_size or default, max_page_size): the request when it is
\* given and positive, else the default, and never more than the ceiling
IntendedLimit(page_size, default_max) ==
    IF page_size.k = "none" \/ page_size.v <= 0 THEN default_max
    ELSE Min(page_size.v, default_max)

IsSequenceBounding ==
    /\ op \in {"convert_iterable_to_list", "extract_paginated_result"}
    /\ arg.rs.shape \in SequenceShapes

\* C1: the bounding step returns min(len(source), min(requested_page_size or
\* default, max_page_size)) items, for every source sequence, requested page
\* size and ceiling.
C1_BoundingInvariant ==
    IsSequenceBounding =>
        Len(ret.out) = Min(arg.rs.n, IntendedLimit(arg.page_size, arg.default_max))

(***************************************************************************)
(* Claims about the facades.                                               *)
(***************************************************************************)
ListOps == ExecutorOps \cup DirectListOps

IsListResponse == pc = "done" /\ op \in ListOps /\ ret.status = "ok"

\* min(requested page size, global max page size); the ceiling alone when
\* the request names no page size
PageCeiling(page_size) ==
    IF page_size.k = "none" THEN MAX_PAGE_SIZE ELSE Min(page_size.v, MAX_PAGE_SIZE)

\* C2: canonical page invariant: in every response of a paginated list
\* operation the item list is no longer than min(requested page_size, 100).
C2_PageWithinCeiling ==
    IsListResponse => Len(ret.items) <= PageCeiling(arg.page_size)

\* the call made it to the SDK and the SDK raised
UpstreamRaised == upstream.kind = "raise"

\* C3: every response of a paginated list operation has a next_page_token
\* that is a string, never null and never missing, and "" when the upstream
\* call failed.
C3_TokenIsString ==
    IsListResponse =>
        /\ ret.token.k = "str"
        /\ UpstreamRaised => ret.token = PyStr("")

\* one of the three stages raised: the request was not built (the SDK was
\* never called), the SDK raised, or the result raised while being iterated
StageRaised ==
    \/ upstream.kind \in {"none", "raise"}
    \/ upstream.kind = "raw" /\ upstream.rs.shape = "gen_fail"

\* C4: failure policy of list operations: no exception reaches the caller,
\* and when a stage raised the response is exactly the canonical empty
\* result {field: [], next_page_token: ""}.
C4_FailuresBecomeEmptyPage ==
    (pc = "done" /\ op \in ListOps) =>
        /\ ret.status = "ok"
        /\ StageRaised => ret = EmptyPage(op)

\* a value that is a number, or a text that parses as one
IsNumeric(x) ==
    \/ x.k \in {"int", "float"}
    \/ x.k = "str" /\ x.v \in DOMAIN FloatTable

\* the upstream result carries what the lookup asks for
CarriesValue(opn, h, result) ==
    CASE opn = "get_token_holders_count" ->
            IsKind(h, result, {"object"}) /\ GetAttr(h, result, "count").k = "int"
      [] opn = "get_token_price" ->
            \/ IsNumeric(result)
            \/ /\ result.k = "str"
               /\ result.v \in DOMAIN JsonTable
               /\ \E i \in 1..Len(JsonTable[result.v].keys) :
                    /\ \E j \in 1..3 : JsonTable[result.v].keys[i] = PRICE_KEYS[j]
                    /\ IsNumeric(JsonTable[result.v].vals[i])
            \/ /\ IsKind(h, result, {"object"})
               /\ \E j \in 1..3 : IsNumeric(GetAttr(h, result, PRICE_KEYS[j]))
      [] OTHER -> result.k # "none"

\* C5: a scalar lookup (price, holders count, metadata) surfaces an error
\* whenever the upstream call fails or its result does not carry the value;
\* it never answers with a default in that case.
C5_ScalarFailureSurfaces ==
    ( /\ pc = "done"
      /\ op \in {"get_token_price", "get_token_holders_count", "get_nft_metadata"}
      /\ \/ UpstreamRaised
         \/ upstream.kind = "value" /\ ~CarriesValue(op, upstream.heap, upstream.obj) )
    => ret.status = "raise"

(***************************************************************************)
(* Claims about the dispatch of extract_paginated_result.                  *)
(***************************************************************************)
IsExtractCall == op = "extract_paginated_result"

IsMappingResult == IsExtractCall /\ IsKind(heap, arg.result, {"dict"})

\* the value found by keyed lookup: under items_attr, else under the first
\* alternative key, else under "items"; None when none of them is non-null
RECURSIVE LookedUp(_, _, _)
LookedUp(h, result, keys) ==
    IF keys = <<>> THEN PyNone
    ELSE IF DictGet(h, result, PyStr(Head(keys))).k # "none"
         THEN DictGet(h, result, PyStr(Head(keys)))
    ELSE LookedUp(h, result, Tail(keys))

\* the items the keyed lookup gives, bounded as the bounding step bounds a
\* list (a value that is no list counts as no items)
KeyedItems ==
    LET found == LookedUp(heap, arg.result,
                          <<arg.items_attr>> \o arg.alternative_keys \o <<"items">>)
    IN IF IsKind(heap, found, {"list", "tuple"})
       THEN convert_iterable_to_list(heap, found, arg.page_size, arg.default_max)
       ELSE <<>>

\* C11: when the raw result is a mapping, the items come from the keyed
\* lookup (dispatch rule 5) and from no other rule, for every items_attr,
\* also one that names a method of the mapping type.
C11_MappingByKeyedLookup == IsMappingResult => ret.out = KeyedItems

\* the value of the mapping under key, None when the key is absent
ValueUnder(key) == DictGet(heap, arg.result, PyStr(key))

FirstAlternativeValue ==
    IF arg.alternative_keys = <<>> THEN PyNone
    ELSE ValueUnder(arg.alternative_keys[1])

\* items_attr first, then the alternative key, then "items"
ChosenByOrder ==
    IF ValueUnder(arg.items_attr).k # "none" THEN ValueUnder(arg.items_attr)
    ELSE IF FirstAlternativeValue.k # "none" THEN FirstAlternativeValue
    ELSE ValueUnder("items")

\* C12: for a mapping result the items are the value under items_attr when
\* it is non-null, else the value under the first non-null alternative key,
\* else the value under "items", else the empty list; the chosen value is
\* then bounded (Scenario A: {assets: [a, b, c]}, "assets", page_size 2
\* gives [a, b]).
C12_MappingLookupOrder ==
    IsMappingResult =>
        ret.out = IF ChosenByOrder.k = "none" THEN <<>>
                  ELSE convert_iterable_to_list(heap, ChosenByOrder,
                                                arg.page_size, arg.default_max)

IsNullResult == IsExtractCall /\ arg.result = PyNone

\* C13: a None result gives (None, []) for every items_attr, page_size,
\* default_max and alternative_keys; no later rule is consulted.
C13_NullResultIsEmptyPage ==
    IsNullResult => ret = [token |-> PyNone, out |-> <<>>]

C13_Witness ==
    /\ IsNullResult
    /\ arg.items_attr = "items"
    /\ arg.page_size = PyInt(1)
    /\ arg.alternative_keys = <<"nfts">>
    /\ ret = [token |-> PyNone, out |-> <<>>]

(***************************************************************************)
(* Claims about a source that fails while it is drained.                   *)
(***************************************************************************)
\* the number of next() calls the loop makes on a source that keeps giving
\* items: one more after every iteration that does not break
PullsWanted ==
    LET limit == EffectiveLimit(arg.page_size, arg.default_max)
    IN IF limit > 1 THEN limit ELSE 1

\* the source raises at a next() the loop makes
FaultWhileDraining ==
    /\ op = "convert_iterable_to_list"
    /\ arg.rs.shape = "gen_fail"
    /\ arg.rs.failAt <= PullsWanted

\* C14: when the source raises while it is drained, after 0 or more items
\* were taken and before the limit is reached, convert_iterable_to_list
\* returns the empty list: no item drained so far is kept and the error does
\* not leave the function.
C14_DrainFailureGivesEmptyList ==
    FaultWhileDraining => ret.out = <<>> /\ ret.ended = "raise"

C14_Witness ==
    /\ FaultWhileDraining
    /\ arg.rs.failAt = 3
    /\ ret.pulls = 3
    /\ ret.out = <<>>

(***************************************************************************)
(* Claims about get_token_price.                                           *)
(***************************************************************************)
IsPriceAnswer ==
    pc = "done" /\ op = "get_token_price" /\ upstream.kind = "value"

IsStringPrice == IsPriceAnswer /\ upstream.obj.k = "str"

\* the position in PRICE_KEYS of the first key the JSON object holds, 0 when
\* it holds none of them or the text is no JSON object
FirstPresentKey(text) ==
    IF text \in DOMAIN JsonTable /\ JsonTable[text].k = "dict"
    THEN FirstPriceKey([j \in 1..3 |-> IndexOf(JsonTable[text].keys, PRICE_KEYS[j], 1) # 0])
    ELSE 0

\* the price the chain names for a string result: the text when it is a
\* number, else the first present price field of the JSON object, else the
\* text
ChainPrice(text) ==
    IF text \in DOMAIN FloatTable THEN PyStr(text)
    ELSE IF FirstPresentKey(text) # 0
         THEN StrOf(<<>>, JsonTable[text].vals[
                  IndexOf(JsonTable[text].keys, PRICE_KEYS[FirstPresentKey(text)], 1)])
    ELSE PyStr(text)

\* C15: for a string result s, get_token_price answers {price_usd: s} when s
\* parses as a number; else, when s is a JSON object, the string form of the
\* first present field among usdPrice, price, price_usd; else s itself
\* (Scenario D: "1.0023" gives "1.0023", {"usdPrice": "1.5"} gives "1.5").
C15_PriceParsingChain ==
    IsStringPrice => ret = PriceResponse(ChainPrice(upstream.obj.v))

\* a text that is no number
IsUnparsable(x) == x.k = "str" /\ x.v \notin DOMAIN FloatTable

\* the result carries a price that cannot be parsed as a number: it is such
\* a string, or an object with such a string in a price field
CarriesUnparsablePrice ==
    /\ IsPriceAnswer
    /\ \/ IsUnparsable(upstream.obj)
       \/ /\ IsKind(upstream.heap, upstream.obj, {"object"})
          /\ \E j \in 1..3 :
                /\ HasAttr(upstream.heap, upstream.obj, PRICE_KEYS[j])
                /\ IsUnparsable(GetAttr(upstream.heap, upstream.obj, PRICE_KEYS[j]))

\* C16: get_token_price does not raise for a price that is present but
\* unparsable, be it a string result or the usdPrice / price / price_usd
\* field of a result object; it answers {price_usd: string}.
C16_UnparsablePriceAnswered ==
    CarriesUnparsablePrice =>
        /\ ret.status = "ok"
        /\ ret.value.keys = <<PyStr("price_usd")>>
        /\ ret.value.v[1].k = "str"

(***************************************************************************)
(* Claims about the token_id filter of get_nft_transfers.                  *)
(***************************************************************************)
\* a transfer listing was asked with a token_id and its page has come back
IsFilteredListing ==
    /\ op = "get_nft_transfers"
    /\ pc = "done"
    /\ thread = "worker"
    /\ arg.token_id.k = "str"
    /\ arg.token_id.v # ""

\* the transfer carries the token identifier id: as its tokenId attribute,
\* or under the key tokenId when it is a dict
HasTokenId(h, transfer, id) ==
    IF IsKind(h, transfer, {"object"})
    THEN HasAttr(h, transfer, "tokenId")
         /\ StrOf(h, GetAttr(h, transfer, "tokenId")) = id
    ELSE IF IsKind(h, transfer, {"dict"})
         THEN IndexOf(h[transfer.v].keys, PyStr("tokenId"), 1) # 0
              /\ StrOf(h, DictGet(h, transfer, PyStr("tokenId"))) = id
    ELSE FALSE

\* the positions of the bounded page whose transfer carries the token_id
MatchingPositions ==
    { i \in 1..Len(fut.items) : HasTokenId(heap, fut.items[i], arg.token_id) }

\* the response the same page gives when no token_id is asked
UnfilteredResponse ==
    ResumeResponse(op, heap, [arg EXCEPT !.token_id = PyNone], fut)

RECURSIVE KeepPositions(_, _, _)
KeepPositions(items, positions, i) ==
    IF i > Len(items) THEN <<>>
    ELSE (IF i \in positions THEN <<items[i]>> ELSE <<>>)
         \o KeepPositions(items, positions, i + 1)

\* C17: with a token_id, the transfers returned are exactly the items of the
\* bounded page whose token identifier equals the token_id, in page order
\* (possibly fewer than page_size, 2 of 5 in Scenario E), and next_page_token
\* is that of the unfiltered page.
C17_TokenIdPostFilter ==
    IsFilteredListing =>
        /\ ret.status = "ok"
        /\ ret.items = KeepPositions(UnfilteredResponse.items, MatchingPositions, 1)
        /\ ret.token = UnfilteredResponse.token

C17_Witness ==
    /\ IsFilteredListing
    /\ Len(fut.items) = 5
    /\ Len(ret.items) = 2
    /\ fut.token = PyStr("tok1")
    /\ ret.token = PyStr("tok1")

(***************************************************************************)
(* Claims about scheduling.                                                *)
(***************************************************************************)
\* the SDK has been called in this invocation
UpstreamCalled == upstream.kind # "none"

\* C18: in every facade operation the blocking SDK call runs on a worker
\* thread of the executor, never on the event loop thread (the operation
\* suspends once, awaiting the job that calls the SDK and extracts the page).
C18_UpstreamOnWorkerPool == UpstreamCalled => thread = "worker"

(***************************************************************************)
(* Claims about concurrent invocations.                                    *)
(***************************************************************************)
\* the response of an invocation that runs alone, from its request and from
\* what the SDK answered to it
AloneResponse(opn, request, up) ==
    IF opn = "get_token_price"
    THEN (IF up.kind = "raise" THEN RaisedBy("UpstreamError")
          ELSE ScalarResponse(opn, up.heap, up.obj))
    ELSE IF up.kind = "raise"
         THEN ResumeResponse(opn, <<>>, request, [token |-> PyNone, items |-> <<>>])
    ELSE LET b == BuildAnswer(up, opn)
             e == PageJob(opn, b.heap, b.obj, request.page_size)
         IN ResumeResponse(opn, HeapAfterDrain(b.heap, e.src, e.r), request,
                           [token |-> e.token, items |-> e.items])

\* every finished invocation answered as it does alone
AnswersAsAlone ==
    \A i \in Invocations :
        calls[i].pc = "done" =>
            calls[i].ret = AloneResponse(calls[i].op, calls[i].arg, calls[i].upstream)

\* the handle was built once, before any invocation, and the three API
\* objects hold that one handle
OneHandle ==
    /\ client.writes <= 1
    /\ (\E i \in Invocations : calls[i].pc # "idle") =>
           /\ client.writes = 1
           /\ client.handle # PyNone
           /\ \A k \in 1..Len(client.apis) : client.apis[k] = client.handle

\* C19: under every interleaving of the steps of concurrent invocations, on
\* the event loop and on worker threads, each invocation answers what it
\* answers when it runs alone on the same upstream result; the one object
\* they share, the client handle, is built once and not written afterwards.
C19_InvocationsIndependent == AnswersAsAlone /\ OneHandle

C19_Witness ==
    /\ \A i \in Invocations : calls[i].pc = "done" /\ calls[i].overlapped
    /\ calls[1].op = "get_nft_transfers"
    /\ Len(calls[1].ret.items) = 2
    /\ calls[2].op = "get_logs"
    /\ Len(calls[2].ret.items) = 1
    /\ client.writes = 1

(***************************************************************************)
(* Claims about calling twice.                                             *)
(***************************************************************************)
\* the raw results whose items come from a generator
LazyShapes == {"generator", "gen_fail", "attr_gen"}

IsSecondSerialize == op = "to_serializable_again"

IsSecondExtract == op = "extract_paginated_result_again"

\* the raw result as the SDK gave it, before any call
RawBefore == BuildRaw(arg.rs, arg.items_attr, "nfts").heap

IsPrefix(short, long) ==
    Len(short) <= Len(long) /\ \A i \in 1..Len(short) : short[i] = long[i]

\* what a generator gives to two calls in a row: the items of the second call
\* follow those of the first in the source, and when the generator does not
\* fail each call takes what is left, up to the number of next() it makes
FollowsOn ==
    LET first == ret.first.out
        second == ret.second.out
        n == arg.rs.n
    IN /\ ret.second.token = ret.first.token
       /\ IsPrefix(first \o second, ItemsSeq(n))
       /\ arg.rs.shape # "gen_fail" =>
             /\ Len(first) = Min(n, PullsWanted)
             /\ Len(second) = Min(n - Len(first), PullsWanted)

\* C20, as stated: after either function the raw result is as before, and a
\* second call on the same raw result returns what the first returned, also
\* for a lazy, single-pass iterable.
C20_Original ==
    /\ IsSecondSerialize => ret.second = ret.first
    /\ IsExtractCall => heap = RawBefore
    /\ IsSecondExtract => ret.second = ret.first /\ heap = RawBefore

\* C20: to_serializable leaves its input unchanged and returns the same
\* output when called again; so does extract_paginated_result on every raw
\* result that holds no generator. A generator is advanced by the next() the
\* call makes, and a second call returns the items that follow.
C20_PureButForGenerators ==
    /\ IsSecondSerialize => ret.second = ret.first
    /\ (IsExtractCall /\ arg.rs.shape \notin LazyShapes) => heap = RawBefore
    /\ (IsSecondExtract /\ arg.rs.shape \notin LazyShapes) =>
           ret.second = ret.first /\ heap = RawBefore
    /\ (IsSecondExtract /\ arg.rs.shape \in LazyShapes) => FollowsOn

C20_Witness ==
    /\ IsSecondExtract
    /\ arg.rs.shape = "generator"
    /\ arg.rs.n = 4
    /\ ret.first.out = <<PyInt(1), PyInt(2)>>
    /\ ret.second.out = <<PyInt(3), PyInt(4)>>

(***************************************************************************)
(* Claims about the currencies listing.                                    *)
(***************************************************************************)
IsCurrenciesAnswer ==
    pc = "done" /\ op = "get_currencies" /\ ret.status = "ok"

\* C21: get_currencies returns at most 50 currencies, for every requested
\* page_size (absent, zero, negative, or above 50) and every length of the
\* upstream result.
C21_CurrenciesCappedAt50 ==
    IsCurrenciesAnswer => Len(ret.items) <= MAX_CURRENCIES_LIMIT

(***************************************************************************)
(* Claims about the limit of the bounding step.                            *)
(***************************************************************************)
\* the requested page size is given and positive
IsPositiveRequest == arg.page_size.k # "none" /\ arg.page_size.v > 0

\* C23: when the requested page size is absent, zero or negative the
\* bounding step uses default_max as its limit and returns
\* min(len(source), default_max) items; only a given, positive page size is
\* used as the limit.
C23_NonPositiveUsesDefault ==
    IsSequenceBounding =>
        Len(ret.out) = Min(arg.rs.n, IF IsPositiveRequest THEN arg.page_size.v
                                     ELSE arg.default_max)

\* the bounding step drains a generator that does not fail
IsLazyBounding ==
    /\ op = "convert_iterable_to_list"
    /\ arg.rs.shape \in {"generator", "gen_endless"}

\* C24: the bounding step stops consuming a lazy source once limit items are
\* appended: for every limit it takes at most limit items and, when it
\* stops at the limit, it has made no next() beyond the last item it keeps;
\* so it ends on a source that never ends.
C24_StopsConsumingAtLimit ==
    IsLazyBounding =>
        /\ Len(ret.out) <= EffectiveLimit(arg.page_size, arg.default_max)
        /\ ret.ended = "break" => ret.pulls = Len(ret.out)

(***************************************************************************)
(* Claims about the start of the process.                                  *)
(***************************************************************************)
\* no variable of the environment holds a credential
NoCredential ==
    proc.status # "off" /\ \A j \in 1..Len(ENV_NAMES) : ~Truthy(<<>>, proc.env[j])

\* some tool has been called
SomeToolCalled == \E i \in Invocations : calls[i].pc # "idle"

\* C22: with no credential in the environment the process ends with a
\* non-zero status before it serves and before a client is built; a tool is
\* only ever called in a process that holds a credential.
C22_MissingCredentialIsFatal ==
    /\ NoCredential =>
          /\ proc.status = "exited"
          /\ proc.code # 0
          /\ client.writes = 0
          /\ client.apis = <<>>
          /\ ~SomeToolCalled
    /\ SomeToolCalled =>
          /\ proc.status = "serving"
          /\ ~MissingKey(proc.key)
          /\ client.handle # PyNone

C22_Witness ==
    /\ NoCredential
    /\ proc.env[1] = PyStr("")
    /\ proc.env[2] = PyNone
    /\ proc.status = "exited"
    /\ proc.code = 1
    /\ client = NoClient

(***************************************************************************)
(* Claims about the cycle detection of to_serializable.                    *)
(***************************************************************************)
IsGraphCall == op \in {"to_serializable_graph", "to_serializable_fixed"}

\* the value of obj when the marker stands exactly where a container is one
\* of its own ancestors: path holds the containers between the root and obj
RECURSIVE PathSerialize(_, _, _)
PathSerialize(h, obj, path) ==
    LET branch == Branch(h, obj, {}, 0)
        fields == Fields(h[obj.v], branch)
    IN IF branch \in {"dict", "sequence", "object"}
       THEN IF obj.v \in path
            THEN CIRCULAR
            ELSE Assemble(branch, fields.keys,
                          [j \in 1..Len(fields.vals) |->
                              PathSerialize(h, fields.vals[j], path \cup {obj.v})])
       ELSE Immediate(branch, h, obj)

\* C25: within the depth limit the marker "<circular reference>" stands at a
\* position if and only if the container found there is one of its own
\* ancestors on the path from the root; a container reached twice through
\* sibling fields is serialized in full at each occurrence.
C25_PathScopedCycles ==
    IsGraphCall => ret = PathSerialize(heap, arg.obj, {})

\* root = {x: s, next: s} with s = [7, 7]: shared, not cyclic
C25_Witness ==
    /\ op = "to_serializable_graph"
    /\ heap[1].kind = "dict"
    /\ heap[1].vals = <<Ref(2), Ref(2)>>
    /\ heap[2].vals = <<PyInt(7), PyInt(7)>>
    /\ ret = OutMap(<<PyStr("x"), PyStr("next")>>,
                    <<OutList(<<PyInt(7), PyInt(7)>>), OutList(<<PyInt(7), PyInt(7)>>)>>)

(***************************************************************************)
(* Claims about rule 6 of to_serializable.                                 *)
(***************************************************************************)
IsObjectCall == op = "to_serializable_object"

\* the names of the object's fields that do not begin with "_"
PublicKeys == SelectSeq(heap[1].keys, LAMBDA key : ~StartsWithUnderscore(key))

\* the object carries the payload field and no public field
OnlyPayloadRetained == PublicKeys = <<>> /\ \E j \in DOMAIN heap[1].keys : heap[1].keys[j] = PyStr("_value_")

\* C26: an object serializes to a map of exactly its public fields, each
\* value serialized, and no key of the map begins with "_"; an object whose
\* only retained field is the payload field serializes to the payload.
C26_ObjectRule ==
    IsObjectCall =>
        IF OnlyPayloadRetained
        THEN ret = to_serializable(heap, arg.val)
        ELSE ret = OutMap(PublicKeys,
                          [j \in 1..Len(PublicKeys) |-> to_serializable(heap, arg.val)])

(***************************************************************************)
(* Claims about get_next_page_token.                                       *)
(***************************************************************************)
IsTokenCall == op = "get_next_page_token"

\* a value that counts as a token: present and not None, "", 0 or False
NonEmptyToken(v) == v # Absent /\ Truthy(<<>>, v)

\* the text of a token value
TokenText(v) ==
    CASE v.k = "str" -> v
      [] v.k = "int" -> PyStr(ToString(v.v))
      [] v.k = "bool" -> PyStr(IF v.v THEN "True" ELSE "False")

\* C27: the token is the string form of the first non-empty value among
\* nextPageToken, next_page_token in that order, "" when the source is null
\* or neither name holds a non-empty value; it is always a string.
C27_TokenExtraction ==
    /\ op \in {"get_next_page_token", "get_next_page_token_plain"} => ret.k = "str"
    /\ op = "get_next_page_token_plain" => ret = PyStr("")
    /\ IsTokenCall =>
          ret = IF NonEmptyToken(arg.newer) THEN TokenText(arg.newer)
                ELSE IF NonEmptyToken(arg.legacy) THEN TokenText(arg.legacy)
                ELSE PyStr("")

\* the newer name holds "", the legacy name holds the token
C27_Witness ==
    /\ IsTokenCall
    /\ arg.kind = "dict"
    /\ arg.newer = PyStr("")
    /\ arg.legacy = PyStr("tok2")
    /\ ret = PyStr("tok2")

(***************************************************************************)
(* Claims about the precedence of the named items field.                   *)
(***************************************************************************)
\* the raw result is not None, no async generator, and has an attribute
\* named items_attr
ExposesItemsField ==
    /\ IsExtractCall
    /\ arg.result.k \notin {"none", "asyncgen"}
    /\ HasAttr(RawBefore, arg.result, arg.items_attr)

\* the contents of the attribute: the items of a list or a generator, nothing
\* for None, the value itself when it is no collection
FieldContents ==
    LET value == GetAttr(RawBefore, arg.result, arg.items_attr)
    IN IF value.k = "none" THEN <<>>
       ELSE IF IsKind(RawBefore, value, {"list", "generator"}) THEN RawBefore[value.v].vals
       ELSE <<value>>

\* the named field governs, the token is extracted from the result, and the
\* items are the field's contents up to n
NamedFieldGoverns(n) ==
    /\ ret.token = get_next_page_token(RawBefore, arg.result)
    /\ ret.out = SubSeq(FieldContents, 1, Min(Len(FieldContents), n))

\* C28: a result that exposes items_attr as an attribute is handled by rule 3
\* also when it is iterable: the items are the attribute's contents (none
\* when it is None) bounded to the effective limit, the token is extracted
\* from the result, and the result itself is not iterated.
C28_NamedFieldPrecedence ==
    ExposesItemsField => NamedFieldGoverns(IntendedLimit(arg.page_size, arg.default_max))

(***************************************************************************)
(* Claims about the totality of the dispatch.                              *)
(***************************************************************************)
DispatchRules == {"none", "asyncgen", "attribute", "iterable", "dict", "single"}

\* the call returned a pair of a token (None or a string) and a list
ReturnsPair ==
    /\ ret.token.k \in {"none", "str"}
    /\ DOMAIN ret.out = 1..Len(ret.out)

\* the raw result is not None, has no attribute named items_attr, is not
\* iterable (a string and a bytes value count as not iterable) and no mapping
NoRuleBeforeLast ==
    /\ IsExtractCall
    /\ arg.result.k # "none"
    /\ ~HasAttr(RawBefore, arg.result, arg.items_attr)
    /\ ~(HasIter(RawBefore, arg.result) /\ arg.result.k \notin {"str", "bytes"})
    /\ ~IsKind(RawBefore, arg.result, {"dict"})

ReturnedAsSingleItem == ret.token = PyNone /\ ret.out = <<arg.result>>

\* C29 (as stated): the dispatch is total, and every non-null result without
\* the named field that is neither iterable nor a mapping is returned as the
\* single item.
C29_Original ==
    /\ IsExtractCall =>
          /\ Dispatch(RawBefore, arg.result, arg.items_attr) \in DispatchRules
          /\ ReturnsPair
    /\ NoRuleBeforeLast => ReturnedAsSingleItem

\* C29: the dispatch is total: every call returns a pair of a token and a
\* list; a non-null result that is no async generator, has no named items
\* field and is neither iterable nor a mapping is returned as the single
\* item, and an async generator gives the empty page.
C29_DispatchTotal ==
    /\ IsExtractCall =>
          /\ Dispatch(RawBefore, arg.result, arg.items_attr) \in DispatchRules
          /\ ReturnsPair
    /\ (NoRuleBeforeLast /\ arg.result.k # "asyncgen") => ReturnedAsSingleItem
    /\ (IsExtractCall /\ arg.result.k = "asyncgen") => ret.token = PyNone /\ ret.out = <<>>

\* a response object without the named field, holding a token
C29_Witness ==
    /\ NoRuleBeforeLast
    /\ arg.rs.shape = "single"
    /\ arg.rs.tc.val = PyStr("tok1")
    /\ ret.token = PyNone
    /\ ret.out = <<Ref(1)>>

(***************************************************************************)
(* Claims about the order of the items.                                    *)
(***************************************************************************)
\* what the call bounds: the named attribute, the result itself, or the value
\* the keyed lookup finds
BoundedSource ==
    LET rule == Dispatch(RawBefore, arg.result, arg.items_attr)
    IN CASE rule = "attribute" -> GetAttr(RawBefore, arg.result, arg.items_attr)
         [] rule = "iterable" -> arg.result
         [] rule = "dict" -> DictItems(RawBefore, arg.result, arg.items_attr,
                                       arg.alternative_keys)
         [] OTHER -> PyNone

\* the call bounds a list, a tuple or a generator
IsFromSequence ==
    IsExtractCall /\ IsKind(RawBefore, BoundedSource, {"list", "tuple", "generator"})

\* C30: a non-empty item list returned from a sequence source is a prefix of
\* the source in source order: item i of the output is item i of the
\* source.
C30_OrderPreserved ==
    (IsFromSequence /\ ret.out # <<>>) =>
        /\ Len(ret.out) <= Len(RawBefore[BoundedSource.v].vals)
        /\ \A i \in 1..Len(ret.out) : ret.out[i] = RawBefore[BoundedSource.v].vals[i]

\* a page of 2 from the named field of a response object that holds 4 items
C30_Witness ==
    /\ IsFromSequence
    /\ arg.rs.shape = "attr"
    /\ arg.rs.n = 4
    /\ arg.page_size = PyInt(2)
    /\ ret.out = <<PyInt(1), PyInt(2)>>
====
